---- MODULE Spec2Model ----
(***************************************************************************)
(* A model of the BGP ingestion pipeline (RAG/rag_framework/bgp_radix1.py, *)
(* RAG/Scripts/live_data_tools/bgp_stream_wrapper.py,                      *)
(* RAG/rag_framework/bgp_to_duckdb.py) and of the flap / anomaly detector  *)
(* (RAG/rag_framework/heuristic_analyzer.py).                              *)
(*                                                                         *)
(* The specifications share the variables:                                 *)
(*   Spec         the pipeline handle_live_updates, step by step           *)
(*   SpecFair     Spec with weak fairness of its steps                     *)
(*   SpecFeed     the pipeline on a fixed archive, one fetch per step      *)
(*   SpecFlap     analyze_route_flaps applied to bounded histories         *)
(*   SpecFlapLong analyze_route_flaps applied to long, evenly spaced ones  *)
(*   SpecDisc     analyze_bgp_discrepancies applied to bounded inputs      *)
(*   SpecLoad     the loading of the checkpoint files by pipeline, router  *)
(*   SpecQuery    the lookups of the query layer on bounded tables         *)
(*                                                                         *)
(* Time is counted in whole seconds after rib_time.  Python strings that   *)
(* the code compares by order or searches are sequences of code points.    *)
(***************************************************************************)
EXTENDS Integers, Sequences, FiniteSets, TLC

VARIABLES
    pc,               \* position of handle_live_updates in its code
    phase,            \* "Backfill" (first while loop) or "Tail" (second while loop)
    intr_pc,          \* position at which KeyboardInterrupt was raised, "" if it was not
    rtree_v4,         \* radix tree of IPv4 prefixes: prefix -> node data
    rtree_v6,         \* radix tree of IPv6 prefixes
    file_v4,          \* contents of radix_v4_obj.pkl.gz
    file_v6,          \* contents of radix_v6_obj.pkl.gz
    db,               \* rows of table rrc03_updates, in insertion order
    db_open,          \* db_con is open
    update_count,     \* local update_count
    last_save_count,  \* local last_save_count
    chunk_start,      \* local chunk_start, seconds after rib_time
    batch,            \* historical_updates / updates: the list the loops run over
    i,                \* index of the loop over batch (1-based)
    stored_count,     \* local stored_count
    error_count,      \* local error_count
    arrived,          \* history: the fetched list in the order the feed returned it
    applied,          \* history: per prefix, the last update whose application
                      \* to a tree began, and whether it was completed
    unsaved,          \* history: tree mutations since the last completed checkpoint
    fetched,          \* history: number of updates the feed has returned so far
    fin,              \* input of the analyzer run (SpecFlap, SpecDisc)
    fout              \* result of the analyzer run, NoResult before it

lvars == <<phase, intr_pc, rtree_v4, rtree_v6, file_v4, file_v6, db, db_open,
           update_count, last_save_count, chunk_start, batch, i, stored_count,
           error_count, arrived, applied, unsaved, fetched>>
avars == <<fin, fout>>
vars == <<pc, lvars, avars>>

----------------------------------------------------------------------------
(* Bounds of the model *)

\* longest list one fetch returns
MaxBatch == 2
\* most updates the feed returns over a whole run
MaxUpdates == 3
\* length of the backfill window in minutes; 10 in the source
\* (bgp_radix1.py line 179), scaled down
BackfillMinutes == 2
\* SAVE_INTERVAL of handle_live_updates; 10000 in the source
\* (bgp_radix1.py line 186), scaled down
SAVE_INTERVAL == 2

----------------------------------------------------------------------------
(* Values *)

\* a prefix string: its address family and network bits; "" is EmptyPrefix
P4 == [fam |-> 4, bits |-> <<1, 0>>]
P6 == [fam |-> 6, bits |-> <<0, 1>>]
EmptyPrefix == [fam |-> 0, bits |-> <<>>]

\* ":" in prefix_str
HasColon(prefix_str) == prefix_str.fam = 6

\* rnode.data keys that have not been assigned
NoAS == 0
NoPath == <<>>
NewNodeData == [origin_as |-> NoAS, as_path |-> NoPath]

\* the entry of P4 that the RIB dump left in the v4 tree (create_trees_from_rib)
RibData == [origin_as |-> 3, as_path |-> <<3>>]

\* AS path strings of the feed, as the token lists that str.split() yields
PathEmpty == <<>>
Path1 == <<"1">>
Path12 == <<"1", "2">>
PathSet == <<"1", "{2,3}">>

\* int(token): the tokens Python's int() accepts, and their values
IntOf == ("1" :> 1) @@ ("2" :> 2) @@ ("3" :> 3)
IsIntToken(tok) == tok \in DOMAIN IntOf

\* None for BGPUpdate.origin_as
NoOrigin == ""

NoUpdate == [timestamp |-> -1, prefix |-> EmptyPrefix, as_path |-> PathEmpty,
             update_type |-> "-", origin_as |-> NoOrigin]

\* BGPUpdate as the wrapper builds it from a stream element
BGPUpdate(timestamp, prefix, as_path, update_type) ==
    [timestamp |-> timestamp, prefix |-> prefix, as_path |-> as_path,
     update_type |-> update_type,
     origin_as |-> IF as_path # <<>> THEN as_path[Len(as_path)] ELSE NoOrigin]

\* the elements the feed may deliver for the window [start_time, end_time]
FeedElems(start_time, end_time) ==
    {BGPUpdate(t, P4, p, "A") : t \in {start_time, end_time}, p \in {Path1, Path12}}
    \cup {BGPUpdate(t, P4, PathEmpty, "W") : t \in {start_time, end_time}}
    \cup {BGPUpdate(start_time, P4, p, "A") : p \in {PathEmpty, PathSet}}
    \cup {BGPUpdate(start_time, P6, Path1, "A"), BGPUpdate(start_time, P6, PathEmpty, "W")}
    \cup {BGPUpdate(start_time, EmptyPrefix, PathEmpty, "W"),
          BGPUpdate(start_time, EmptyPrefix, PathEmpty, "S")}

\* the lists of at most n elements over S
SeqsUpTo(S, n) == UNION {[1..k -> S] : k \in 0..n}

Min(a, b) == IF a <= b THEN a ELSE b


----------------------------------------------------------------------------
(* Radix trees: a tree is a function from the prefixes it stores to the    *)
(* data dictionary of their nodes.                                         *)

EmptyTree == [q \in {} |-> NewNodeData]

\* target_tree = rtree_v6 if ":" in prefix_str else rtree_v4
TargetTree(prefix_str) == IF HasColon(prefix_str) THEN rtree_v6 ELSE rtree_v4

\* the chosen tree becomes t, the other one is left alone
TargetTreeBecomes(prefix_str, t) ==
    IF HasColon(prefix_str)
      THEN rtree_v6' = t /\ UNCHANGED rtree_v4
      ELSE rtree_v4' = t /\ UNCHANGED rtree_v6

\* target_tree.delete(prefix_str)
TreeDelete(tree, prefix_str) ==
    [q \in (DOMAIN tree) \ {prefix_str} |-> tree[q]]

\* a withdrawal that leaves the node in the tree
TreeWithdraw_keeps(tree, prefix_str) == tree

\* if prefix_str in target_tree: target_tree.delete(prefix_str)
TreeWithdraw(tree, prefix_str) ==
    IF prefix_str \in DOMAIN tree THEN TreeDelete(tree, prefix_str) ELSE tree

\* rnode = target_tree.add(prefix_str): the node of the prefix, created with
\* empty data when the tree has none
TreeAdd(tree, prefix_str) ==
    IF prefix_str \in DOMAIN tree THEN tree ELSE tree @@ (prefix_str :> NewNodeData)

\* rnode.data["origin_as"] = origin_as
SetOriginAs(tree, prefix_str, origin_as) ==
    [tree EXCEPT ![prefix_str].origin_as = origin_as]

\* rnode.data["as_path"] = as_numbers
SetAsPath(tree, prefix_str, as_numbers) ==
    [tree EXCEPT ![prefix_str].as_path = as_numbers]

----------------------------------------------------------------------------
(* The per-update computations of the apply loop *)

\* [int(asn) for asn in update.as_path.split()] raises ValueError
RaisesValueError(as_path) == \E k \in 1..Len(as_path) : ~IsIntToken(as_path[k])

\* [int(asn) for asn in update.as_path.split()]
AsNumbers(as_path) == [k \in 1..Len(as_path) |-> IntOf[as_path[k]]]

\* int(update.origin_as) if update.origin_as else as_numbers[-1]
OriginOf(update) ==
    IF update.origin_as # NoOrigin
      THEN IntOf[update.origin_as]
      ELSE AsNumbers(update.as_path)[Len(update.as_path)]

\* the update reaches target_tree.add: an announcement with a prefix and a
\* path of integers
IsUpsert(update) ==
    /\ update.prefix # EmptyPrefix
    /\ update.update_type = "A"
    /\ update.as_path # PathEmpty
    /\ ~RaisesValueError(update.as_path)

\* the update reaches the withdrawal branch
IsWithdrawal(update) ==
    /\ update.prefix # EmptyPrefix
    /\ update.update_type = "W"

\* update_count - last_save_count >= SAVE_INTERVAL
SaveDue(count, last_save) == count - last_save >= SAVE_INTERVAL

----------------------------------------------------------------------------
(* bgp_to_duckdb.store_live_update: the row it inserts, if any *)

\* the INSERT binds origin_as to a BIGINT column: None and integers convert
BindsToBigint(origin_as) == origin_as = NoOrigin \/ IsIntToken(origin_as)

LogRow(update) ==
    IF update.update_type = "W"
      THEN [timestamp |-> update.timestamp, prefix |-> update.prefix,
            update_type |-> "W", as_path |-> PathEmpty, origin_as |-> NoOrigin]
      ELSE [timestamp |-> update.timestamp, prefix |-> update.prefix,
            update_type |-> "A", as_path |-> update.as_path,
            origin_as |-> update.origin_as]

\* lines 95-101: the update gets past the two early returns and reaches
\* con.execute: an Announce or a Withdraw with a non-empty prefix
IsRouteUpdate(update) ==
    /\ update.update_type \in {"A", "W"}
    /\ update.prefix # EmptyPrefix

\* the value returned and the rows of the table afterwards
store_live_update(update, rows) ==
    IF update.update_type \notin {"A", "W"} THEN [ok |-> TRUE, rows |-> rows]
    ELSE IF update.prefix = EmptyPrefix THEN [ok |-> FALSE, rows |-> rows]
    ELSE IF update.update_type = "A" /\ ~BindsToBigint(update.origin_as)
      THEN [ok |-> FALSE, rows |-> rows]
    ELSE [ok |-> TRUE, rows |-> Append(rows, LogRow(update))]

----------------------------------------------------------------------------
(* bgp_to_duckdb.parse_as_path_to_data *)

\* '{' in asn_token, and asn_token.strip('{}').split(',')[0]
FirstOfSet == ("{2,3}" :> "2") @@ ("{x}" :> "x")
HasBrace(asn_token) == asn_token \in DOMAIN FirstOfSet

\* '(' in asn_token
HasParen(asn_token) == asn_token \in {"(3)"}

\* the list as_numbers after the loop over raw_asns (lines 156-171)
RECURSIVE ParsedAsNumbers(_)
ParsedAsNumbers(raw_asns) ==
    IF raw_asns = <<>> THEN <<>>
    ELSE LET asn_token == raw_asns[Len(raw_asns)]
             before == ParsedAsNumbers(SubSeq(raw_asns, 1, Len(raw_asns) - 1)) IN
         IF HasBrace(asn_token)
           THEN IF IsIntToken(FirstOfSet[asn_token])
                  THEN Append(before, IntOf[FirstOfSet[asn_token]])
                  ELSE before
         ELSE IF HasParen(asn_token) THEN before
         ELSE IF IsIntToken(asn_token) THEN Append(before, IntOf[asn_token])
         ELSE before

\* the AS numbers and the origin that parse_as_path_to_data returns; the
\* origin is None (NoAS) when the path yields no AS number
parse_as_path_to_data(as_path) ==
    LET as_numbers == ParsedAsNumbers(as_path) IN
    [as_numbers |-> as_numbers,
     origin_as |-> IF as_numbers = <<>> THEN NoAS ELSE as_numbers[Len(as_numbers)]]

----------------------------------------------------------------------------
(* BGPStreamWrapper *)

\* get_prefix_updates_in_range keeps an element unless
\* timestamp < start_time or timestamp > end_time
InRange(update, start_time, end_time) ==
    ~(update.timestamp < start_time \/ update.timestamp > end_time)

get_prefix_updates_in_range(elems, start_time, end_time) ==
    SelectSeq(elems, LAMBDA u : InRange(u, start_time, end_time))

\* updates.sort(key=lambda x: x.timestamp) of summarize_updates: a stable
\* sort of the caller's list, in place
RECURSIVE InsertByTimestamp(_, _)
InsertByTimestamp(u, s) ==
    IF s = <<>> THEN <<u>>
    ELSE IF s[Len(s)].timestamp <= u.timestamp THEN Append(s, u)
    ELSE Append(InsertByTimestamp(u, SubSeq(s, 1, Len(s) - 1)), s[Len(s)])

RECURSIVE SortByTimestamp(_)
SortByTimestamp(s) ==
    IF s = <<>> THEN <<>>
    ELSE InsertByTimestamp(s[Len(s)], SortByTimestamp(SubSeq(s, 1, Len(s) - 1)))

\* the caller's list after summarize_updates(updates) has returned
summarize_updates(updates) == SortByTimestamp(updates)

----------------------------------------------------------------------------
(* handle_live_updates *)

\* rib_time, and current_time = rib_time + timedelta(minutes=10)
rib_time == 0
current_time == rib_time + BackfillMinutes * 60

\* datetime.utcnow() of get_prefix_updates, an instant after the backfill window
TailNow == current_time + 120

\* the analyzer variables, which the pipeline does not touch
NoInput == [kind |-> "none"]
NoResult == [kind |-> "none"]

\* the positions inside the try block, where KeyboardInterrupt can be raised
TryPcs == {"bf_loop", "store", "summarize", "apply", "added", "origin_set",
           "psave_v4", "psave_v6", "tail_loop", "sleep", "fetch_failed"}

\* the state when handle_live_updates enters its try block: the trees came
\* from the checkpoint files or were built from the RIB dump and then saved
PipelineStart ==
    /\ phase = "Backfill"
    /\ intr_pc = ""
    /\ rtree_v4 = (P4 :> RibData)
    /\ rtree_v6 = EmptyTree
    /\ file_v4 = rtree_v4
    /\ file_v6 = rtree_v6
    /\ db = <<>>
    /\ db_open = TRUE
    /\ update_count = 0
    /\ last_save_count = 0
    /\ chunk_start = rib_time
    /\ batch = <<>>
    /\ i = 1
    /\ stored_count = 0
    /\ error_count = 0
    /\ arrived = <<>>
    /\ applied = [q \in {P4, P6} |-> [update |-> NoUpdate, done |-> TRUE]]
    /\ unsaved = 0
    /\ fetched = 0

Init ==
    /\ pc = "bf_loop"
    /\ PipelineStart
    /\ fin = NoInput
    /\ fout = NoResult

\* a fetch has returned the list us
Fetched(us) ==
    /\ batch' = us
    /\ arrived' = us
    /\ fetched' = fetched + Len(us)
    /\ i' = 1
    /\ stored_count' = 0
    /\ error_count' = 0

\* lines 191-198 and 266: the loop test, the fetch of one chunk, and the
\* advance to the next chunk when the list is empty
BackfillFetch ==
    /\ pc = "bf_loop"
    /\ chunk_start < current_time
    /\ LET chunk_end == Min(chunk_start + 60, current_time) IN
       \E elems \in SeqsUpTo(FeedElems(chunk_start, chunk_end),
                             Min(MaxBatch, MaxUpdates - fetched)) :
          LET us == get_prefix_updates_in_range(elems, chunk_start, chunk_end) IN
          /\ Fetched(us)
          /\ IF us # <<>>
               THEN pc' = "store" /\ UNCHANGED chunk_start
               ELSE pc' = "bf_loop" /\ chunk_start' = chunk_end
    /\ UNCHANGED <<phase, intr_pc, rtree_v4, rtree_v6, file_v4, file_v6, db, db_open,
                   update_count, last_save_count, applied, unsaved, avars>>

\* bgp_stream_wrapper.py lines 297-298: the stream raises inside
\* get_prefix_updates_in_range and its except clause is entered
BackfillFetchFails ==
    /\ pc = "bf_loop"
    /\ chunk_start < current_time
    /\ pc' = "fetch_failed"
    /\ UNCHANGED <<lvars, avars>>

\* bgp_stream_wrapper.py lines 207-208: the stream raises inside
\* get_prefix_updates and its except clause is entered
TailFetchFails ==
    /\ pc = "tail_loop"
    /\ pc' = "fetch_failed"
    /\ UNCHANGED <<lvars, avars>>

\* a caller that polls again at once after a failed fetch in the live loop
FetchFailedReturn_busy ==
    /\ pc = "fetch_failed"
    /\ Fetched(<<>>)
    /\ IF phase = "Backfill"
         THEN pc' = "bf_loop" /\ chunk_start' = Min(chunk_start + 60, current_time)
         ELSE pc' = "tail_loop" /\ UNCHANGED chunk_start
    /\ UNCHANGED <<phase, intr_pc, rtree_v4, rtree_v6, file_v4, file_v6, db, db_open,
                   update_count, last_save_count, applied, unsaved, avars>>

\* bgp_stream_wrapper.py lines 299 / 209: the wrapper returns []; the caller
\* finds the list empty (lines 200 / 275) and goes on: to the next chunk
\* (line 266) in the backfill, to the sleep (line 341) in the live loop
FetchFailedReturn ==
    /\ pc = "fetch_failed"
    /\ Fetched(<<>>)
    /\ IF phase = "Backfill"
         THEN pc' = "bf_loop" /\ chunk_start' = Min(chunk_start + 60, current_time)
         ELSE pc' = "sleep" /\ UNCHANGED chunk_start
    /\ UNCHANGED <<phase, intr_pc, rtree_v4, rtree_v6, file_v4, file_v6, db, db_open,
                   update_count, last_save_count, applied, unsaved, avars>>

\* lines 191 and 268: the loop test fails, the live loop begins
BackfillDone ==
    /\ pc = "bf_loop"
    /\ ~(chunk_start < current_time)
    /\ pc' = "tail_loop"
    /\ phase' = "Tail"
    /\ UNCHANGED <<intr_pc, rtree_v4, rtree_v6, file_v4, file_v6, db, db_open,
                   update_count, last_save_count, chunk_start, batch, i, stored_count,
                   error_count, arrived, applied, unsaved, fetched, avars>>

\* lines 273-275 and 339: the fetch of the last minute
TailFetch ==
    /\ pc = "tail_loop"
    /\ \E us \in SeqsUpTo(FeedElems(TailNow - 60, TailNow),
                          Min(MaxBatch, MaxUpdates - fetched)) :
          /\ Fetched(us)
          /\ pc' = IF us # <<>> THEN "store" ELSE "sleep"
    /\ UNCHANGED <<phase, intr_pc, rtree_v4, rtree_v6, file_v4, file_v6, db, db_open,
                   update_count, last_save_count, chunk_start, applied, unsaved, avars>>

\* line 341: time.sleep(30) returns
Sleep ==
    /\ pc = "sleep"
    /\ pc' = "tail_loop"
    /\ UNCHANGED <<phase, intr_pc, rtree_v4, rtree_v6, file_v4, file_v6, db, db_open,
                   update_count, last_save_count, chunk_start, batch, i, stored_count,
                   error_count, arrived, applied, unsaved, fetched, avars>>

\* lines 204-208 / 279-283: one round of the loop that stores the list
StoreOne ==
    /\ pc = "store"
    /\ LET r == store_live_update(batch[i], db) IN
          /\ db' = r.rows
          /\ stored_count' = IF r.ok THEN stored_count + 1 ELSE stored_count
          /\ error_count' = IF r.ok THEN error_count ELSE error_count + 1
    /\ IF i < Len(batch)
         THEN i' = i + 1 /\ pc' = "store"
         ELSE i' = 1 /\ pc' = "summarize"
    /\ UNCHANGED <<phase, intr_pc, rtree_v4, rtree_v6, file_v4, file_v6, db_open,
                   update_count, last_save_count, chunk_start, batch, arrived, applied,
                   unsaved, fetched, avars>>

\* a store loop that gives up the list at the first failed append
StoreOneFails_aborts ==
    /\ pc = "store"
    /\ IsRouteUpdate(batch[i])
    /\ error_count' = error_count + 1
    /\ i' = Len(batch) + 1
    /\ pc' = "apply"
    /\ UNCHANGED <<phase, intr_pc, rtree_v4, rtree_v6, file_v4, file_v6, db, db_open,
                   update_count, last_save_count, chunk_start, batch, stored_count,
                   arrived, applied, unsaved, fetched, avars>>

\* bgp_to_duckdb.py lines 103-145: con.execute raises (the database file
\* cannot be written, the connection is lost), store_live_update returns
\* False without a row, and the loop counts the error and goes on
StoreOneFails ==
    /\ pc = "store"
    /\ IsRouteUpdate(batch[i])
    /\ error_count' = error_count + 1
    /\ IF i < Len(batch)
         THEN i' = i + 1 /\ pc' = "store"
         ELSE i' = 1 /\ pc' = "summarize"
    /\ UNCHANGED <<phase, intr_pc, rtree_v4, rtree_v6, file_v4, file_v6, db, db_open,
                   update_count, last_save_count, chunk_start, batch, stored_count,
                   arrived, applied, unsaved, fetched, avars>>

\* lines 212 / 287: summarize_updates sorts the list it is given
Summarize ==
    /\ pc = "summarize"
    /\ batch' = summarize_updates(batch)
    /\ pc' = "apply"
    /\ UNCHANGED <<phase, intr_pc, rtree_v4, rtree_v6, file_v4, file_v6, db, db_open,
                   update_count, last_save_count, chunk_start, i, stored_count,
                   error_count, arrived, applied, unsaved, fetched, avars>>

\* lines 220-223, 228, 232-241, 257-259: an update the apply loop passes over
ApplySkip ==
    /\ pc = "apply"
    /\ i <= Len(batch)
    /\ ~IsWithdrawal(batch[i])
    /\ ~IsUpsert(batch[i])
    /\ i' = i + 1
    /\ UNCHANGED <<pc, phase, intr_pc, rtree_v4, rtree_v6, file_v4, file_v6, db, db_open,
                   update_count, last_save_count, chunk_start, batch, stored_count,
                   error_count, arrived, applied, unsaved, fetched, avars>>

\* a withdrawal that is counted as an applied update
ApplyWithdraw_counted ==
    /\ pc = "apply"
    /\ i <= Len(batch)
    /\ IsWithdrawal(batch[i])
    /\ LET prefix_str == batch[i].prefix
           target_tree == TargetTree(prefix_str) IN
          /\ TargetTreeBecomes(prefix_str, TreeWithdraw(target_tree, prefix_str))
          /\ unsaved' = IF prefix_str \in DOMAIN target_tree THEN unsaved + 1 ELSE unsaved
          /\ applied' = [applied EXCEPT ![prefix_str] = [update |-> batch[i], done |-> TRUE]]
    /\ i' = i + 1
    /\ update_count' = update_count + 1
    /\ UNCHANGED <<pc, phase, intr_pc, file_v4, file_v6, db, db_open,
                   last_save_count, chunk_start, batch, stored_count, error_count,
                   arrived, fetched, avars>>

\* lines 228-230: a withdrawal
ApplyWithdraw ==
    /\ pc = "apply"
    /\ i <= Len(batch)
    /\ IsWithdrawal(batch[i])
    /\ LET prefix_str == batch[i].prefix
           target_tree == TargetTree(prefix_str) IN
          /\ TargetTreeBecomes(prefix_str, TreeWithdraw(target_tree, prefix_str))
          /\ unsaved' = IF prefix_str \in DOMAIN target_tree THEN unsaved + 1 ELSE unsaved
          /\ applied' = [applied EXCEPT ![prefix_str] = [update |-> batch[i], done |-> TRUE]]
    /\ i' = i + 1
    /\ UNCHANGED <<pc, phase, intr_pc, file_v4, file_v6, db, db_open, update_count,
                   last_save_count, chunk_start, batch, stored_count, error_count,
                   arrived, fetched, avars>>

\* lines 232-244: an announcement, up to rnode = target_tree.add(prefix_str)
ApplyAdd ==
    /\ pc = "apply"
    /\ i <= Len(batch)
    /\ IsUpsert(batch[i])
    /\ TargetTreeBecomes(batch[i].prefix, TreeAdd(TargetTree(batch[i].prefix), batch[i].prefix))
    /\ applied' = [applied EXCEPT ![batch[i].prefix] = [update |-> batch[i], done |-> FALSE]]
    /\ pc' = "added"
    /\ UNCHANGED <<phase, intr_pc, file_v4, file_v6, db, db_open, update_count,
                   last_save_count, chunk_start, batch, i, stored_count, error_count,
                   arrived, unsaved, fetched, avars>>

\* line 245
ApplyOrigin ==
    /\ pc = "added"
    /\ TargetTreeBecomes(batch[i].prefix,
                         SetOriginAs(TargetTree(batch[i].prefix), batch[i].prefix,
                                     OriginOf(batch[i])))
    /\ pc' = "origin_set"
    /\ UNCHANGED <<phase, intr_pc, file_v4, file_v6, db, db_open, update_count,
                   last_save_count, chunk_start, batch, i, stored_count, error_count,
                   arrived, applied, unsaved, fetched, avars>>

\* lines 246-251: the path is stored, the update is counted and the test of
\* the save interval is made
ApplyPath ==
    /\ pc = "origin_set"
    /\ TargetTreeBecomes(batch[i].prefix,
                         SetAsPath(TargetTree(batch[i].prefix), batch[i].prefix,
                                   AsNumbers(batch[i].as_path)))
    /\ update_count' = update_count + 1
    /\ unsaved' = unsaved + 1
    /\ applied' = [applied EXCEPT ![batch[i].prefix].done = TRUE]
    /\ IF SaveDue(update_count + 1, last_save_count)
         THEN pc' = "psave_v4" /\ UNCHANGED i
         ELSE pc' = "apply" /\ i' = i + 1
    /\ UNCHANGED <<phase, intr_pc, file_v4, file_v6, db, db_open, last_save_count,
                   chunk_start, batch, stored_count, error_count, arrived, fetched, avars>>

\* lines 253, 69-70: the periodic save writes the v4 file
PeriodicSaveV4 ==
    /\ pc = "psave_v4"
    /\ file_v4' = rtree_v4
    /\ pc' = "psave_v6"
    /\ UNCHANGED <<phase, intr_pc, rtree_v4, rtree_v6, file_v6, db, db_open, update_count,
                   last_save_count, chunk_start, batch, i, stored_count, error_count,
                   arrived, applied, unsaved, fetched, avars>>

\* lines 72-73, 254: the periodic save writes the v6 file and is recorded
PeriodicSaveV6 ==
    /\ pc = "psave_v6"
    /\ file_v6' = rtree_v6
    /\ last_save_count' = update_count
    /\ unsaved' = 0
    /\ pc' = "apply"
    /\ i' = i + 1
    /\ UNCHANGED <<phase, intr_pc, rtree_v4, rtree_v6, file_v4, db, db_open, update_count,
                   chunk_start, batch, stored_count, error_count, arrived, applied,
                   fetched, avars>>

\* an end of the list that moves the window on by two chunks
BatchDone_skips ==
    /\ pc = "apply"
    /\ i > Len(batch)
    /\ IF phase = "Backfill"
         THEN pc' = "bf_loop" /\ chunk_start' = Min(chunk_start + 120, current_time)
         ELSE pc' = "tail_loop" /\ UNCHANGED chunk_start
    /\ batch' = <<>>
    /\ arrived' = <<>>
    /\ i' = 1
    /\ stored_count' = 0
    /\ error_count' = 0
    /\ UNCHANGED <<phase, intr_pc, rtree_v4, rtree_v6, file_v4, file_v6, db, db_open,
                   update_count, last_save_count, applied, unsaved, fetched, avars>>

\* lines 220 / 295 at the end of the list, then 266 or 271
BatchDone ==
    /\ pc = "apply"
    /\ i > Len(batch)
    /\ IF phase = "Backfill"
         THEN pc' = "bf_loop" /\ chunk_start' = Min(chunk_start + 60, current_time)
         ELSE pc' = "tail_loop" /\ UNCHANGED chunk_start
    /\ batch' = <<>>
    /\ arrived' = <<>>
    /\ i' = 1
    /\ stored_count' = 0
    /\ error_count' = 0
    /\ UNCHANGED <<phase, intr_pc, rtree_v4, rtree_v6, file_v4, file_v6, db, db_open,
                   update_count, last_save_count, applied, unsaved, fetched, avars>>

\* line 343: KeyboardInterrupt is raised somewhere inside the try block and
\* the handler is entered; the locals of the loops are not read again
Interrupt ==
    /\ pc \in TryPcs
    /\ intr_pc' = pc
    /\ pc' = "fsave_v4"
    /\ batch' = <<>>
    /\ arrived' = <<>>
    /\ i' = 1
    /\ stored_count' = 0
    /\ error_count' = 0
    /\ UNCHANGED <<phase, rtree_v4, rtree_v6, file_v4, file_v6, db, db_open, update_count,
                   last_save_count, chunk_start, applied, unsaved, fetched, avars>>

\* lines 346, 69-70
FinalSaveV4 ==
    /\ pc = "fsave_v4"
    /\ file_v4' = rtree_v4
    /\ pc' = "fsave_v6"
    /\ UNCHANGED <<phase, intr_pc, rtree_v4, rtree_v6, file_v6, db, db_open, update_count,
                   last_save_count, chunk_start, batch, i, stored_count, error_count,
                   arrived, applied, unsaved, fetched, avars>>

\* a final save that returns before the v6 file is written
FinalSaveV6_unwritten ==
    /\ pc = "fsave_v6"
    /\ unsaved' = 0
    /\ pc' = "close"
    /\ UNCHANGED <<phase, intr_pc, rtree_v4, rtree_v6, file_v4, file_v6, db, db_open,
                   update_count, last_save_count, chunk_start, batch, i, stored_count,
                   error_count, arrived, applied, fetched, avars>>

\* lines 346, 72-73
FinalSaveV6 ==
    /\ pc = "fsave_v6"
    /\ file_v6' = rtree_v6
    /\ unsaved' = 0
    /\ pc' = "close"
    /\ UNCHANGED <<phase, intr_pc, rtree_v4, rtree_v6, file_v4, db, db_open, update_count,
                   last_save_count, chunk_start, batch, i, stored_count, error_count,
                   arrived, applied, fetched, avars>>

\* lines 347-348: db_con.close(), and the function returns
Close ==
    /\ pc = "close"
    /\ db_open' = FALSE
    /\ pc' = "Stopped"
    /\ phase' = "Stopped"
    /\ UNCHANGED <<intr_pc, rtree_v4, rtree_v6, file_v4, file_v6, db, update_count,
                   last_save_count, chunk_start, batch, i, stored_count, error_count,
                   arrived, applied, unsaved, fetched, avars>>

Next ==
    \/ BackfillFetch
    \/ BackfillFetchFails
    \/ TailFetchFails
    \/ FetchFailedReturn
    \/ BackfillDone
    \/ TailFetch
    \/ Sleep
    \/ StoreOne
    \/ StoreOneFails
    \/ Summarize
    \/ ApplySkip
    \/ ApplyWithdraw
    \/ ApplyAdd
    \/ ApplyOrigin
    \/ ApplyPath
    \/ PeriodicSaveV4
    \/ PeriodicSaveV6
    \/ BatchDone
    \/ Interrupt
    \/ FinalSaveV4
    \/ FinalSaveV6
    \/ Close

Spec == Init /\ [][Next]_vars

\* handle_live_updates is one sequential thread that runs whenever it can:
\* some step of it is taken as long as one is possible
SpecFair == Spec /\ WF_vars(Next)

----------------------------------------------------------------------------
(* Claims about the pipeline, checked under Spec *)

\* the entry an announcement leaves in the tree
EntryOf(update) ==
    [origin_as |-> IntOf[update.as_path[Len(update.as_path)]],
     as_path |-> [k \in 1..Len(update.as_path) |-> IntOf[update.as_path[k]]]]

\* C1: for every prefix to which an update has been applied completely, the
\* prefix is in the tree of its address family exactly if the last update
\* applied to it was an announcement, and then its entry has the origin and
\* the path of that announcement; after a withdrawal there is no entry.
C1_LastAppliedWins ==
    \A p \in {P4, P6} :
        LET a == applied[p] IN
        (a.done /\ a.update # NoUpdate) =>
            /\ (p \in DOMAIN TargetTree(p)) <=> (a.update.update_type = "A")
            /\ a.update.update_type = "A" => TargetTree(p)[p] = EntryOf(a.update)

\* a withdrawal has removed P4 after an announcement had been applied, and the
\* v6 tree holds the entry of an announcement
C1_Witness ==
    /\ applied[P4].done
    /\ applied[P4].update.update_type = "W"
    /\ P4 \notin DOMAIN rtree_v4
    /\ update_count >= 2
    /\ applied[P6].done
    /\ applied[P6].update.update_type = "A"
    /\ P6 \in DOMAIN rtree_v6

\* the index of the last element of the list that writes to prefix p (a
\* withdrawal, or an announcement the apply loop does not skip), 0 if none
LastWriter(us, p) ==
    LET W == {k \in 1..Len(us) :
                 us[k].prefix = p /\ (IsWithdrawal(us[k]) \/ IsUpsert(us[k]))}
    IN IF W = {} THEN 0 ELSE CHOOSE k \in W : \A j \in W : j <= k

\* C2: when the apply loop has run over a fetched list, every prefix the list
\* writes to is in the state that the update which arrived last left: absent
\* after a withdrawal, present with its attributes after an announcement,
\* whatever the timestamps of the updates are.
C2_LastArrivedWins ==
    (pc = "apply" /\ i > Len(batch)) =>
        \A p \in {P4, P6} :
            LET k == LastWriter(arrived, p) IN
            k > 0 =>
                IF arrived[k].update_type = "W"
                  THEN p \notin DOMAIN TargetTree(p)
                  ELSE /\ p \in DOMAIN TargetTree(p)
                       /\ TargetTree(p)[p] = EntryOf(arrived[k])

\* C9: at most SAVE_INTERVAL updates have changed a tree since the last
\* checkpoint of both trees was written.
C9_ReplayBounded == unsaved <= SAVE_INTERVAL

C11_FailedChunkNotSkipped ==
    [][(pc = "fetch_failed" /\ phase = "Backfill") => chunk_start' = chunk_start]_vars

\* C12: a checkpoint is written atomically as a pair: every step that
\* changes a checkpoint file leaves on disk the pair of one save, the
\* snapshot of both trees the save was called with, never the v4 file of one
\* save beside the v6 file of another.
C12_CheckpointPairAtomic ==
    [][(file_v4' # file_v4 \/ file_v6' # file_v6)
          => (file_v4' = rtree_v4 /\ file_v6' = rtree_v6)]_vars

\* the log holds the row of the update
Logged(update) == \E r \in 1..Len(db) : db[r] = LogRow(update)

\* C14: once the store loop has gone through a fetched list, every Announce
\* and Withdraw of the list that has a non-empty prefix has its row in the
\* update log, whatever the apply loop then does with it (a Withdraw of an
\* absent prefix, an Announce with an empty or unparsable AS path).
C14_EveryUpdateLogged ==
    pc = "summarize" =>
        \A k \in 1..Len(arrived) : IsRouteUpdate(arrived[k]) => Logged(arrived[k])

\* the tree of the prefix as the step leaves it
TargetTreeAfter(prefix_str) == IF HasColon(prefix_str) THEN rtree_v6' ELSE rtree_v4'

\* the apply loop goes from the update batch[i] to the next one
MovesPast ==
    /\ pc \in {"apply", "origin_set", "psave_v6"}
    /\ i <= Len(batch)
    /\ pc' = "apply"
    /\ i' = i + 1

\* the entry C16 describes for an announcement: the parsed list, and the
\* explicit origin if it is an AS number, else the last AS of the list
ParsedEntry(update) ==
    LET parsed == parse_as_path_to_data(update.as_path) IN
    [as_path |-> parsed.as_numbers,
     origin_as |-> IF IsIntToken(update.origin_as) THEN IntOf[update.origin_as]
                   ELSE parsed.origin_as]

\* C16: whenever the apply loop goes past an Announce with a non-empty
\* prefix, either its AS path yields no AS number (an AS set counts with
\* its first member, a confederation token not at all) and the step is a
\* skip that leaves both tables unchanged, or the prefix is in its table
\* with the parsed list as path and the explicit origin, else the list's
\* last element, as originAS.
C16_AnnounceParsedAndUpserted ==
    [][(MovesPast /\ batch[i].update_type = "A" /\ batch[i].prefix # EmptyPrefix)
          => IF parse_as_path_to_data(batch[i].as_path).as_numbers = <<>>
               THEN pc = "apply" /\ UNCHANGED <<rtree_v4, rtree_v6>>
               ELSE /\ batch[i].prefix \in DOMAIN TargetTreeAfter(batch[i].prefix)
                    /\ TargetTreeAfter(batch[i].prefix)[batch[i].prefix] = ParsedEntry(batch[i])]_vars

\* a poll of the live loop ends with an empty list
EmptyPollEnds ==
    /\ phase = "Tail"
    /\ pc \in {"tail_loop", "fetch_failed"}
    /\ pc' \notin {"fetch_failed", "fsave_v4"}
    /\ batch' = <<>>

\* the live loop comes back to its poll
NextPollBegins ==
    /\ phase = "Tail"
    /\ pc # "tail_loop"
    /\ pc' = "tail_loop"

\* C17: in Tail a poll that returns no updates is followed by the delay,
\* and the loop comes back to the poll only from the delay or from the end
\* of the processing of a non-empty list.
C17_EmptyPollThenDelay ==
    [][/\ EmptyPollEnds => pc' = "sleep"
       /\ NextPollBegins => (pc = "sleep" \/ (pc = "apply" /\ batch # <<>> /\ i > Len(batch)))]_vars

\* an empty poll of the live loop has ended and the delay is running
C17_Witness == pc = "sleep" /\ phase = "Tail" /\ batch = <<>> /\ fetched > 0

\* the apply loop stands at a Withdraw of a prefix that is not in its table
AtAbsentWithdraw ==
    /\ pc = "apply"
    /\ i <= Len(batch)
    /\ IsWithdrawal(batch[i])
    /\ batch[i].prefix \notin DOMAIN TargetTree(batch[i].prefix)

\* C19: a Withdraw of a prefix that is not in the table is a silent no-op:
\* the step raises nothing (the loop goes on to the next update, unless the
\* pipeline is interrupted there) and leaves both tables, the counter of
\* applied updates and the checkpoint (files and last_save_count)
\* unchanged; and after any Withdraw has been applied, applying it again
\* changes nothing.
C19_AbsentWithdrawNoOp ==
    [][/\ AtAbsentWithdraw =>
             /\ UNCHANGED <<rtree_v4, rtree_v6, update_count, last_save_count,
                            file_v4, file_v6>>
             /\ (pc' = "apply" /\ i' = i + 1) \/ pc' = "fsave_v4"
       /\ (pc = "apply" /\ i <= Len(batch) /\ IsWithdrawal(batch[i]) /\ i' = i + 1) =>
             TreeWithdraw(TargetTreeAfter(batch[i].prefix), batch[i].prefix)
               = TargetTreeAfter(batch[i].prefix)]_vars

\* a Withdraw of P6 has been applied though P6 was never announced
C19_Witness ==
    /\ pc = "apply"
    /\ i > 1
    /\ applied[P6].update.update_type = "W"
    /\ update_count = 0
    /\ rtree_v6 = EmptyTree

\* the order of the phases
PhaseRank == ("Backfill" :> 1) @@ ("Tail" :> 2) @@ ("Stopped" :> 3)

\* the phase only moves forward; from Stopped no step is taken
PhaseForward ==
    /\ PhaseRank[phase'] >= PhaseRank[phase]
    /\ phase # "Stopped"

\* chunk_start moves only in Backfill, by one chunk, and only when the list
\* of the chunk was empty or has been stored and applied to its end
ChunkAdvances ==
    chunk_start' # chunk_start =>
        /\ phase = "Backfill"
        /\ chunk_start' > chunk_start
        /\ chunk_start' = Min(chunk_start + 60, current_time)
        /\ pc' = "bf_loop"
        /\ batch' = <<>>
        /\ \/ pc = "apply" /\ i > Len(batch)
           \/ pc \in {"bf_loop", "fetch_failed"} /\ batch = <<>>

\* a fetch begins only when no list is being processed, and the live loop
\* begins only when the window has been gone through to its end
FetchAfterApply ==
    /\ (pc \in {"bf_loop", "tail_loop"} /\ pc' = "store") => batch = <<>>
    /\ (phase = "Backfill" /\ phase' = "Tail") =>
          (chunk_start = rib_time + BackfillMinutes * 60 /\ batch = <<>>)

\* C21: the phase moves only forward along Backfill, Tail, Stopped, and
\* Stopped is final; Backfill goes through the chunks of its window one at
\* a time in increasing order, each one stored and applied to its end
\* before the next fetch; chunk_start strictly increases, and a pipeline
\* that keeps running leaves Backfill (for Tail, unless it is interrupted).
C21_PhasesAndChunksInOrder ==
    /\ [][PhaseForward /\ ChunkAdvances /\ FetchAfterApply]_vars
    /\ <>(phase = "Tail" \/ intr_pc # "")

\* the live loop has begun after a backfill that was not interrupted and
\* that applied an announcement
C21_Witness ==
    /\ phase = "Tail"
    /\ intr_pc = ""
    /\ chunk_start = current_time
    /\ update_count > 0

\* the entries that come whole from one source: the entry of the RIB dump,
\* or the origin and the path of one announcement
WholeEntries ==
    {RibData} \cup {EntryOf(BGPUpdate(rib_time, P4, as_path, "A")) : as_path \in {Path1, Path12}}

\* every entry of a checkpoint file is whole
FileEntriesWhole(file) == \A q \in DOMAIN file : file[q] \in WholeEntries

\* C22: no checkpoint file, written by the periodic save or by the final
\* save after an interrupt, holds a half-applied upsert: every entry of a
\* saved table has an origin_as and an as_path that come from one and the
\* same announcement.
C22_NoHalfAppliedInCheckpoint == FileEntriesWhole(file_v4) /\ FileEntriesWhole(file_v6)

\* the half of C22 about the writes: while a save is writing the files no
\* update is applied to a table
C22_NoApplyDuringSave ==
    [][(pc \in {"psave_v4", "psave_v6", "fsave_v4", "fsave_v6"})
          => (rtree_v4' = rtree_v4 /\ rtree_v6' = rtree_v6)]_vars

\* the two lists hold the same updates, each as often in one as in the other
SameUpdates(us, vs) ==
    /\ Len(us) = Len(vs)
    /\ \A k \in 1..Len(us) :
          Cardinality({j \in 1..Len(us) : us[j] = us[k]})
            = Cardinality({j \in 1..Len(vs) : vs[j] = us[k]})

\* a failed append is counted and the store loop goes on with the next
\* update of the list, in the same phase
FailureIsCounted ==
    (pc = "store" /\ error_count' = error_count + 1) =>
        /\ phase' = phase
        /\ batch' = batch
        /\ IF i < Len(batch) THEN pc' = "store" /\ i' = i + 1 ELSE pc' = "summarize"

\* after a failure the later updates of the list are still appended
LaterStillAppended ==
    (pc = "store" /\ error_count > 0 /\ pc' \in {"store", "summarize"}
       /\ error_count' = error_count) =>
        /\ stored_count' = stored_count + 1
        /\ IsRouteUpdate(batch[i]) => db' = Append(db, LogRow(batch[i]))

\* the apply loop goes through the whole list, one update after the other,
\* whatever the store loop has counted
AllStillApplied ==
    /\ (pc = "summarize" /\ pc' = "apply") => (i' = 1 /\ SameUpdates(batch', arrived))
    /\ (pc = "apply" /\ pc' = "apply" /\ i' # i) => i' = i + 1
    /\ (pc = "apply" /\ pc' \in {"bf_loop", "tail_loop"}) => i > Len(batch)
    /\ (pc \in {"store", "summarize", "apply"} /\ phase' # phase) => pc' = "Stopped"

\* C26: a failed log append for one update is counted in error_count and
\* does not abort the list: the later updates are still appended, every
\* update of the list is still gone through by the apply loop, and the
\* pipeline stays in its phase.
C26_FailureDoesNotAbortBatch ==
    [][FailureIsCounted /\ LaterStillAppended /\ AllStillApplied]_vars

\* the append of the first of two announcements failed, the second is in
\* the log, and both have been applied
C26_Witness ==
    /\ pc = "apply"
    /\ Len(arrived) = 2
    /\ i > Len(batch)
    /\ error_count = 1
    /\ stored_count = 1
    /\ IsUpsert(arrived[1]) /\ IsUpsert(arrived[2])
    /\ arrived[1].prefix = P6 /\ arrived[2].prefix = P4
    /\ ~Logged(arrived[1]) /\ Logged(arrived[2])
    /\ P6 \in DOMAIN rtree_v6
    /\ rtree_v4[P4] = EntryOf(arrived[2])

\* the log after the step is the log before it, or that log with rows added
\* at its end
LogOnlyGrows ==
    /\ Len(db') >= Len(db)
    /\ SubSeq(db', 1, Len(db)) = db

\* C15: the table never reflects an update that the log lacks, also when
\* log appends fail: every step that changes a routing table is made for an
\* update whose row is in the update log; and the pipeline only adds rows to
\* the log, it never changes or deletes one.
C15_TableNeverAheadOfLog ==
    [][/\ (rtree_v4' # rtree_v4 \/ rtree_v6' # rtree_v6) => Logged(batch[i])
       /\ LogOnlyGrows]_vars

\* the append-only half of C15 alone
C15_LogAppendOnly == [][LogOnlyGrows]_vars

----------------------------------------------------------------------------
(* heuristic_analyzer.analyze_route_flaps *)

\* longest history given to analyze_route_flaps in SpecFlap
MaxHist == 4

\* a timestamp string in ISO format, reduced to <<minutes, seconds>>
IsoFormat(t) == <<t \div 60, t % 60>>

\* datetime.fromisoformat(s), in seconds
FromIso(s) == s[1] * 60 + s[2]

\* the order of two timestamp strings as strings
IsoLeq(a, b) == a[1] < b[1] \/ (a[1] = b[1] /\ a[2] <= b[2])

\* sorted(historical_updates, key=lambda x: x["timestamp"]): stable
RECURSIVE InsertByIso(_, _)
InsertByIso(u, s) ==
    IF s = <<>> THEN <<u>>
    ELSE IF IsoLeq(s[Len(s)].timestamp, u.timestamp) THEN Append(s, u)
    ELSE Append(InsertByIso(u, SubSeq(s, 1, Len(s) - 1)), s[Len(s)])

RECURSIVE SortedByIso(_)
SortedByIso(s) ==
    IF s = <<>> THEN <<>>
    ELSE InsertByIso(s[Len(s)], SortedByIso(SubSeq(s, 1, Len(s) - 1)))

\* a list too short to analyze, which reports a threshold of 2
TooFew_two(n) == n < 2

\* len(...) < 3, the test of lines 16 and 39
TooFew(n) == n < 3

\* the result of lines 17-25 and 40-48
Insufficient(why) ==
    [flap_detected |-> FALSE, transition_count |-> 0, details |-> <<>>,
     rapid_transitions |-> 0, pattern_analysis |-> why, severity |-> "normal",
     stats |-> <<>>]

\* lines 34-37: the updates at or after window_start
RelevantUpdates(updates, window_start) ==
    SelectSeq(updates, LAMBDA u : FromIso(u.timestamp) >= window_start)

\* a test that sees a change of state only when a withdrawal arrives
IsTransition_toW(update_type, last_state) == update_type # last_state /\ update_type = "W"

\* line 64: update["type"] != last_state
IsTransition(update_type, last_state) == update_type # last_state

\* lines 51-71: the loop over the first k relevant updates; last_state starts
\* as the type of the first one
RECURSIVE TrackStateChanges(_, _)
TrackStateChanges(relevant_updates, k) ==
    IF k = 0
      THEN [last_state |-> relevant_updates[1].type, transition_count |-> 0,
            flap_details |-> <<>>, announcement_count |-> 0, withdrawal_count |-> 0]
      ELSE LET before == TrackStateChanges(relevant_updates, k - 1)
               update == relevant_updates[k]
               counted ==
                   IF update.type = "A"
                     THEN [before EXCEPT !.announcement_count = @ + 1]
                     ELSE [before EXCEPT !.withdrawal_count = @ + 1]
           IN IF IsTransition(update.type, before.last_state)
                THEN [counted EXCEPT
                      !.last_state = update.type,
                      !.transition_count = @ + 1,
                      !.flap_details = Append(@,
                          [timestamp |-> update.timestamp,
                           transition |-> <<before.last_state, update.type>>,
                           as_path |-> update.as_path])]
                ELSE [counted EXCEPT !.last_state = update.type]

\* lines 74-81
RapidFlapSegments(flap_details, rapid_flap_interval_seconds) ==
    Cardinality({k \in 1..(Len(flap_details) - 1) :
        FromIso(flap_details[k + 1].timestamp) - FromIso(flap_details[k].timestamp)
            <= rapid_flap_interval_seconds})

\* a detector that is satisfied with one transition fewer
FlapDetected_early(transition_count, min_transitions_for_flap) ==
    transition_count + 1 >= min_transitions_for_flap

\* line 84
FlapDetected(transition_count, min_transitions_for_flap) ==
    transition_count >= min_transitions_for_flap

\* a ladder whose top rung asks for both conditions
FlapSeverity_both(flap_detected, transition_count, rapid_flap_segments, min_transitions_for_flap) ==
    IF ~flap_detected THEN "normal"
    ELSE IF /\ transition_count > min_transitions_for_flap + 4
            /\ rapid_flap_segments > min_transitions_for_flap \div 2
      THEN "high"
    ELSE IF transition_count > min_transitions_for_flap + 2 \/ rapid_flap_segments > 0
      THEN "medium"
    ELSE "low"

\* lines 87-94
FlapSeverity(flap_detected, transition_count, rapid_flap_segments, min_transitions_for_flap) ==
    IF ~flap_detected THEN "normal"
    ELSE IF \/ transition_count > min_transitions_for_flap + 4
            \/ rapid_flap_segments > min_transitions_for_flap \div 2
      THEN "high"
    ELSE IF transition_count > min_transitions_for_flap + 2 \/ rapid_flap_segments > 0
      THEN "medium"
    ELSE "low"

analyze_route_flaps(historical_updates, time_window_minutes, min_transitions_for_flap, rapid_flap_interval_seconds) ==
    IF TooFew(Len(historical_updates)) THEN Insufficient("insufficient updates")
    ELSE
    LET updates == SortedByIso(historical_updates)
        latest_timestamp == FromIso(updates[Len(updates)].timestamp)
        window_start == latest_timestamp - time_window_minutes * 60
        relevant_updates == RelevantUpdates(updates, window_start)
    IN
    IF TooFew(Len(relevant_updates)) THEN Insufficient("insufficient updates in window")
    ELSE
    LET tracked == TrackStateChanges(relevant_updates, Len(relevant_updates))
        rapid_flap_segments ==
            RapidFlapSegments(tracked.flap_details, rapid_flap_interval_seconds)
        flap_detected == FlapDetected(tracked.transition_count, min_transitions_for_flap)
    IN [flap_detected |-> flap_detected,
        transition_count |-> tracked.transition_count,
        details |-> tracked.flap_details,
        rapid_transitions |-> rapid_flap_segments,
        pattern_analysis |-> "analyzed",
        severity |-> FlapSeverity(flap_detected, tracked.transition_count,
                                  rapid_flap_segments, min_transitions_for_flap),
        stats |-> <<tracked.announcement_count, tracked.withdrawal_count,
                    Len(relevant_updates)>>]

\* the timestamps, in seconds, of the histories of SpecFlap
FlapTimes == {0, 60, 200, 360}

\* the history rows: an announcement carries a path, a withdrawal none
HistoryRows(times) ==
    {[timestamp |-> IsoFormat(t), type |-> "A", as_path |-> p] :
        t \in times, p \in {"1", "1 2"}}
    \cup {[timestamp |-> IsoFormat(t), type |-> "W", as_path |-> "None"] : t \in times}

\* the parameter values of SpecFlap: the defaults of line 3 first
FlapParameters ==
    {[time_window_minutes |-> 5, min_transitions_for_flap |-> 4,
      rapid_flap_interval_seconds |-> 60],
     [time_window_minutes |-> 5, min_transitions_for_flap |-> 2,
      rapid_flap_interval_seconds |-> 60],
     [time_window_minutes |-> 1, min_transitions_for_flap |-> 2,
      rapid_flap_interval_seconds |-> 60]}

DefaultParameters ==
    [time_window_minutes |-> 5, min_transitions_for_flap |-> 4,
     rapid_flap_interval_seconds |-> 60]

InitFlap ==
    /\ pc = "analyze"
    /\ PipelineStart
    /\ \E h \in SeqsUpTo(HistoryRows(FlapTimes), MaxHist), par \in FlapParameters :
          fin = [kind |-> "flaps", historical_updates |-> h, parameters |-> par]
    /\ fout = NoResult

\* one call of analyze_route_flaps
AnalyzeFlaps ==
    /\ pc = "analyze"
    /\ fin.kind = "flaps"
    /\ fout' = analyze_route_flaps(fin.historical_updates,
                                   fin.parameters.time_window_minutes,
                                   fin.parameters.min_transitions_for_flap,
                                   fin.parameters.rapid_flap_interval_seconds)
    /\ pc' = "analyzed"
    /\ UNCHANGED <<lvars, fin>>

NextFlap == AnalyzeFlaps

SpecFlap == InitFlap /\ [][NextFlap]_vars

\* longest history of evenly spaced updates given to analyze_route_flaps
MaxLongHist == 7

\* histories in time order, one update every `step` seconds, of any kinds
LongHistories ==
    UNION {{[k \in 1..n |-> [timestamp |-> IsoFormat(k * step), type |-> ty[k],
                              as_path |-> IF ty[k] = "A" THEN "1" ELSE "None"]] :
               ty \in [1..n -> {"A", "W"}], step \in {30, 100}} : n \in 0..MaxLongHist}

\* parameter values under which a long history reaches every severity
LongParameters ==
    {[time_window_minutes |-> 15, min_transitions_for_flap |-> m,
      rapid_flap_interval_seconds |-> 60] : m \in {1, 2}}

\* the inputs of SpecFlap and the long histories
InitFlapLong ==
    /\ pc = "analyze"
    /\ PipelineStart
    /\ \/ \E h \in SeqsUpTo(HistoryRows(FlapTimes), MaxHist), par \in FlapParameters :
             fin = [kind |-> "flaps", historical_updates |-> h, parameters |-> par]
       \/ \E h \in LongHistories, par \in LongParameters :
             fin = [kind |-> "flaps", historical_updates |-> h, parameters |-> par]
    /\ fout = NoResult

SpecFlapLong == InitFlapLong /\ [][NextFlap]_vars

----------------------------------------------------------------------------
(* heuristic_analyzer.analyze_bgp_discrepancies *)

\* longest history given to analyze_bgp_discrepancies in SpecDisc
MaxHistD == 5

\* Python strings as sequences of code points
Chars ==
    [normal |-> <<110, 111, 114, 109, 97, 108>>,
     low |-> <<108, 111, 119>>,
     medium |-> <<109, 101, 100, 105, 117, 109>>,
     high |-> <<104, 105, 103, 104>>,
     critical |-> <<99, 114, 105, 116, 105, 99, 97, 108>>,
     valid |-> <<118, 97, 108, 105, 100>>,
     invalid |-> <<105, 110, 118, 97, 108, 105, 100>>,
     invalid_asn |-> <<105, 110, 118, 97, 108, 105, 100, 95, 97, 115, 110>>,
     unknown |-> <<117, 110, 107, 110, 111, 119, 110>>]

\* a < b for two Python strings
RECURSIVE StrLess(_, _)
StrLess(a, b) ==
    IF b = <<>> THEN FALSE
    ELSE IF a = <<>> THEN TRUE
    ELSE IF a[1] # b[1] THEN a[1] < b[1]
    ELSE StrLess(Tail(a), Tail(b))

\* max(a, b) of two strings, as in lines 214, 219 and 232
PyMax(a, b) == IF StrLess(Chars[a], Chars[b]) THEN b ELSE a

\* s.startswith(prefix)
StartsWith(s, prefix) ==
    Len(s) >= Len(prefix) /\ SubSeq(s, 1, Len(prefix)) = prefix

\* s.replace("AS", "")
RECURSIVE ReplaceAS(_)
ReplaceAS(s) ==
    IF Len(s) < 2 THEN s
    ELSE IF s[1] = 65 /\ s[2] = 83 THEN ReplaceAS(SubSeq(s, 3, Len(s)))
    ELSE <<s[1]>> \o ReplaceAS(Tail(s))

\* s.strip()
RECURSIVE Strip(_)
Strip(s) ==
    IF s = <<>> THEN s
    ELSE IF s[1] = 32 THEN Strip(Tail(s))
    ELSE IF s[Len(s)] = 32 THEN Strip(SubSeq(s, 1, Len(s) - 1))
    ELSE s

\* s.isdigit()
IsDigit(s) == s # <<>> /\ \A k \in 1..Len(s) : s[k] \in 48..57

PyNone == [py |-> "None"]

\* the value current_origin is left without
NoCurrentOrigin == <<>>

\* lines 166-170; str(origin_as) is the sequence held in the dictionary, and
\* an absent or falsy origin_as is the empty sequence
CurrentOrigin(live_bgp_data) ==
    IF live_bgp_data # PyNone /\ live_bgp_data.origin_as # <<>>
      THEN LET origin_raw == Strip(ReplaceAS(live_bgp_data.origin_as))
           IN IF IsDigit(origin_raw) THEN origin_raw ELSE NoCurrentOrigin
      ELSE NoCurrentOrigin

InList(x, list) == \E k \in 1..Len(list) : list[k] = x

\* line 202
IsRpkiInvalid(rpki_data) ==
    rpki_data # PyNone /\ StartsWith(Chars[rpki_data.rpki_status], Chars["invalid"])

\* a mismatch test that never finds one
IsIrrMismatch_never(irr_data, current_origin) == FALSE

\* line 203
IsIrrMismatch(irr_data, current_origin) ==
    /\ irr_data # PyNone
    /\ irr_data.irr_origins # <<>>
    /\ current_origin # NoCurrentOrigin
    /\ ~InList(current_origin, irr_data.irr_origins)

\* a severity left as it is
RaiseToLow_not(severity) == severity

\* lines 225-226
RaiseToLow(severity) == IF severity = "normal" THEN "low" ELSE severity

\* flags that report rapid changes without a detected flap
FlapFlags_rapid(flap_analysis) ==
    [flap_analysis |-> flap_analysis,
     flags |-> (IF flap_analysis.flap_detected
                  THEN <<IF flap_analysis.severity = "critical" THEN "SEVERE_ROUTE_FLAPPING"
                         ELSE IF flap_analysis.severity = "high"
                           THEN "FREQUENT_ROUTE_FLAPPING"
                         ELSE "ROUTE_FLAPPING">>
                  ELSE <<>>)
               \o (IF flap_analysis.rapid_transitions > 0
                     THEN <<"RAPID_STATE_CHANGES">> ELSE <<>>),
     severity |-> IF flap_analysis.flap_detected THEN flap_analysis.severity ELSE "normal"]

\* lines 175-199: the flags of a flap analysis and the severity it seeds
FlapFlags(flap_analysis) ==
    IF flap_analysis.flap_detected
      THEN [flap_analysis |-> flap_analysis,
            flags |-> <<IF flap_analysis.severity = "critical" THEN "SEVERE_ROUTE_FLAPPING"
                        ELSE IF flap_analysis.severity = "high"
                          THEN "FREQUENT_ROUTE_FLAPPING"
                        ELSE "ROUTE_FLAPPING">>
                      \o (IF flap_analysis.rapid_transitions > 0
                            THEN <<"RAPID_STATE_CHANGES">> ELSE <<>>),
            severity |-> flap_analysis.severity]
      ELSE [flap_analysis |-> flap_analysis, flags |-> <<>>, severity |-> "normal"]

\* lines 173-174: the flap analysis runs, with its defaults, on a history
\* that is not empty
FlapStage(historical_updates) ==
    IF historical_updates = <<>>
      THEN [flap_analysis |-> PyNone, flags |-> <<>>, severity |-> "normal"]
      ELSE FlapFlags(analyze_route_flaps(historical_updates, 5, 4, 60))

\* lines 205-208
PotentialHijack(st) ==
    [st EXCEPT !.flags = Append(@, "POTENTIAL_HIJACK"), !.severity = "critical"]

\* an invalid RPKI status alone raises the severity to critical
CheckRpkiInvalid_critical(st, is_rpki_invalid) ==
    IF is_rpki_invalid
      THEN [st EXCEPT !.flags = Append(@, "RPKI_INVALID"), !.severity = "critical"]
      ELSE st

\* lines 211-214
CheckRpkiInvalid(st, is_rpki_invalid) ==
    IF is_rpki_invalid
      THEN [st EXCEPT !.flags = Append(@, "RPKI_INVALID"), !.severity = PyMax(@, "high")]
      ELSE st

\* lines 216-219
CheckIrrMismatch(st, is_irr_mismatch) ==
    IF is_irr_mismatch
      THEN [st EXCEPT !.flags = Append(@, "IRR_MISMATCH"), !.severity = PyMax(@, "medium")]
      ELSE st

\* lines 222-226
CheckMultipleOrigins(st, irr_data) ==
    IF irr_data # PyNone /\ Len(irr_data.irr_origins) > 1
      THEN [st EXCEPT !.flags = Append(@, "MULTIPLE_IRR_ORIGINS"),
                      !.severity = RaiseToLow(@)]
      ELSE st

\* lines 229-232
CheckConflict(st, rpki_data, is_irr_mismatch) ==
    IF rpki_data # PyNone /\ rpki_data.rpki_status = "valid" /\ is_irr_mismatch
      THEN [st EXCEPT !.flags = Append(@, "RPKI_IRR_CONFLICT"),
                      !.severity = PyMax(@, "medium")]
      ELSE st

\* lines 205-232
Discrepancies(st, is_rpki_invalid, is_irr_mismatch, rpki_data, irr_data) ==
    IF is_rpki_invalid /\ is_irr_mismatch
      THEN PotentialHijack(st)
      ELSE CheckConflict(
               CheckMultipleOrigins(
                   CheckIrrMismatch(CheckRpkiInvalid(st, is_rpki_invalid), is_irr_mismatch),
                   irr_data),
               rpki_data, is_irr_mismatch)

analyze_bgp_discrepancies(live_bgp_data, rpki_data, irr_data, historical_updates) ==
    Discrepancies(FlapStage(historical_updates),
                  IsRpkiInvalid(rpki_data),
                  IsIrrMismatch(irr_data, CurrentOrigin(live_bgp_data)),
                  rpki_data, irr_data)

\* the timestamps, in seconds, of the histories of SpecDisc
DiscTimes == {0, 100, 200, 300}

DiscRows ==
    {r \in HistoryRows(DiscTimes) : r.as_path # "1 2"}

\* the rows of get_historical_data, ORDER BY timestamp DESC: the histories of
\* n rows, newest first
RECURSIVE NewestFirst(_)
NewestFirst(n) ==
    IF n = 0 THEN {<<>>}
    ELSE UNION {{Append(h, r) :
                    r \in {q \in DiscRows :
                             h = <<>> \/ FromIso(q.timestamp) <= FromIso(h[Len(h)].timestamp)}} :
                h \in NewestFirst(n - 1)}

DiscHistories == UNION {NewestFirst(n) : n \in 0..MaxHistD}

\* live states: none, no origin, "1", "AS2", "3", "AS"
LiveValues ==
    {PyNone, [origin_as |-> <<>>], [origin_as |-> <<49>>], [origin_as |-> <<65, 83, 50>>],
     [origin_as |-> <<51>>], [origin_as |-> <<65, 83>>]}

RpkiValues ==
    {PyNone} \cup {[rpki_status |-> st] : st \in {"valid", "invalid", "invalid_asn", "unknown"}}

IrrValues ==
    {PyNone, [irr_origins |-> <<>>], [irr_origins |-> <<<<49>>>>],
     [irr_origins |-> <<<<49>>, <<50>>>>]}

InitDisc ==
    /\ pc = "analyze"
    /\ PipelineStart
    /\ \E l \in LiveValues, r \in RpkiValues, ir \in IrrValues, h \in DiscHistories :
          fin = [kind |-> "discrepancies", live_bgp_data |-> l, rpki_data |-> r,
                 irr_data |-> ir, historical_updates |-> h]
    /\ fout = NoResult

\* one call of analyze_bgp_discrepancies
AnalyzeDiscrepancies ==
    /\ pc = "analyze"
    /\ fin.kind = "discrepancies"
    /\ fout' = analyze_bgp_discrepancies(fin.live_bgp_data, fin.rpki_data, fin.irr_data,
                                         fin.historical_updates)
    /\ pc' = "analyzed"
    /\ UNCHANGED <<lvars, fin>>

NextDisc == AnalyzeDiscrepancies

SpecDisc == InitDisc /\ [][NextDisc]_vars

----------------------------------------------------------------------------
(* Loading the checkpoint files: load_or_create_trees_OPTIMIZED of the     *)
(* pipeline and _load_radix_trees of the query router                      *)

\* a checkpoint file: absent, present but not loadable (pickle.load or
\* gzip raises), or holding a pickled tree
Missing == [st |-> "missing"]
Unreadable == [st |-> "unreadable"]
Pickled(tree) == [st |-> "pickled", tree |-> tree]

\* the trees pickled in the files of directory k: each directory has its own
CkptTree(k, fam) ==
    IF fam = 4
      THEN (P4 :> [origin_as |-> k, as_path |-> <<k>>])
      ELSE (P6 :> [origin_as |-> k, as_path |-> <<k>>])

\* the states of the pair of files of directory k
DirStates(k) ==
    [v4 : {Missing, Unreadable, Pickled(CkptTree(k, 4))},
     v6 : {Missing, Unreadable, Pickled(CkptTree(k, 6))}]

\* os.path.exists(path)
Exists(file) == file # Missing

\* pickle.load of the opened file returns
Loads(file) == file.st = "pickled"

\* the Radix object that pickle.load returns
Unpickled(file) == [py |-> "Radix", tree |-> file.tree]

\* bgp_radix1.py lines 36-60, on the files of the working directory
load_or_create_trees_OPTIMIZED(dir) ==
    IF Exists(dir.v4) /\ Exists(dir.v6)
      THEN IF Loads(dir.v4) /\ Loads(dir.v6)
             THEN [rtree_v4 |-> Unpickled(dir.v4), rtree_v6 |-> Unpickled(dir.v6)]
             ELSE [rtree_v4 |-> PyNone, rtree_v6 |-> PyNone]
      ELSE [rtree_v4 |-> PyNone, rtree_v6 |-> PyNone]

\* clean_router.py lines 66-67
RouterUnset == [rtree_v4 |-> PyNone, rtree_v6 |-> PyNone, found |-> FALSE]

\* clean_router.py lines 76-86: one round of the loop over possible_paths;
\* found is the break of line 84
RouterTryPath(self, dir) ==
    IF self.found \/ ~(Exists(dir.v4) /\ Exists(dir.v6)) THEN self
    ELSE IF ~Loads(dir.v4) THEN self
    ELSE IF ~Loads(dir.v6) THEN [self EXCEPT !.rtree_v4 = Unpickled(dir.v4)]
    ELSE [rtree_v4 |-> Unpickled(dir.v4), rtree_v6 |-> Unpickled(dir.v6), found |-> TRUE]

\* clean_router.py lines 64-89, possible_paths being directories 1 and 2
load_radix_trees(disk) ==
    RouterTryPath(RouterTryPath(RouterUnset, disk[1]), disk[2])

InitLoad ==
    /\ pc = "load"
    /\ PipelineStart
    /\ \E d1 \in DirStates(1), d2 \in DirStates(2) :
          fin = [kind |-> "load", disk |-> <<d1, d2>>]
    /\ fout = NoResult

\* the pipeline starts and loads the files of its working directory
PipelineLoad ==
    /\ pc = "load"
    /\ fout' = [kind |-> "pipeline",
                trees |-> load_or_create_trees_OPTIMIZED(fin.disk[1])]
    /\ pc' = "loaded"
    /\ UNCHANGED <<lvars, fin>>

\* a query router is constructed and loads the files
RouterLoad ==
    /\ pc = "load"
    /\ fout' = [kind |-> "router", trees |-> load_radix_trees(fin.disk)]
    /\ pc' = "loaded"
    /\ UNCHANGED <<lvars, fin>>

NextLoad == PipelineLoad \/ RouterLoad

SpecLoad == InitLoad /\ [][NextLoad]_vars

\* C13: after a load attempt the loader holds both tables or neither, and
\* two tables it holds come from the files of one directory.
C13_LoadedAsPair ==
    pc = "loaded" =>
        /\ (fout.trees.rtree_v4.py = "None") <=> (fout.trees.rtree_v6.py = "None")
        /\ (fout.trees.rtree_v4.py = "Radix" /\ fout.trees.rtree_v6.py = "Radix") =>
              \E k \in 1..2 : /\ fin.disk[k].v4 = Pickled(fout.trees.rtree_v4.tree)
                              /\ fin.disk[k].v6 = Pickled(fout.trees.rtree_v6.tree)

----------------------------------------------------------------------------
(* The lookups: radix.Radix (py-radix) as the query layer and the script   *)
(* use it, CleanBGPRouter.get_live_bgp_state and the searches of __main__  *)

\* number of bits of an address in SpecQuery
AddrBits == 2

\* the prefixes the tables of SpecQuery may hold: nested ones and disjoint ones
QueryPrefixes4 == {[fam |-> 4, bits |-> <<>>], [fam |-> 4, bits |-> <<1>>], P4,
                   [fam |-> 4, bits |-> <<0>>]}
QueryPrefixes6 == {[fam |-> 6, bits |-> <<0>>], P6}

\* rnode.data as the apply loop leaves it for a path of one AS
QueryData == {[origin_as |-> a, as_path |-> <<a>>] : a \in {1, 2}}

\* the tables the pipeline can build over a set of prefixes
TablesOver(S) == UNION {[D -> QueryData] : D \in SUBSET S}

\* the addresses of one family
Addresses(fam) == {[fam |-> fam, bits |-> b] : b \in [1..AddrBits -> {0, 1}]}

\* the first n bits of an address, as a prefix
PrefixOfLen(ip, n) == [fam |-> ip.fam, bits |-> SubSeq(ip.bits, 1, n)]

\* a node of a Radix object
RadixNode(tree, prefix) == [py |-> "RadixNode", prefix |-> prefix, data |-> tree[prefix]]

\* Radix.search_exact(prefix)
search_exact(radix, prefix) ==
    IF prefix \in DOMAIN radix.tree THEN RadixNode(radix.tree, prefix) ELSE PyNone

\* Radix.search_best(ip): the walk from the longest prefix of ip to the
\* shortest, up to the first one that is stored
RECURSIVE BestFrom(_, _, _)
BestFrom(tree, ip, n) ==
    IF PrefixOfLen(ip, n) \in DOMAIN tree THEN RadixNode(tree, PrefixOfLen(ip, n))
    ELSE IF n = 0 THEN PyNone
    ELSE BestFrom(tree, ip, n - 1)

search_best(radix, ip) == BestFrom(radix.tree, ip, Len(ip.bits))

\* Radix.search_worst(ip): the walk from the shortest prefix of ip to the
\* longest, up to the first one that is stored
RECURSIVE WorstFrom(_, _, _)
WorstFrom(tree, ip, n) ==
    IF PrefixOfLen(ip, n) \in DOMAIN tree THEN RadixNode(tree, PrefixOfLen(ip, n))
    ELSE IF n = Len(ip.bits) THEN PyNone
    ELSE WorstFrom(tree, ip, n + 1)

search_worst(radix, ip) == WorstFrom(radix.tree, ip, 0)

\* Python values whose type matters to ==
PyStr(s) == [py |-> "str", val |-> s]
PyInt(n) == [py |-> "int", val |-> n]

\* a == b for an int or a str on either side: values of different types
\* are never equal
PyEq(a, b) == a.py = b.py /\ a.val = b.val

\* `if tree:` / `if node:` for None, a Radix object or a node
Truthy(v) == v.py # "None"

\* tree = self.rtree_v6 if ":" in ip else self.rtree_v4
TreeOfAddress_v4(self, addr) == self.rtree_v4
TreeOfAddress(self, addr) == IF HasColon(addr) THEN self.rtree_v6 ELSE self.rtree_v4

\* clean_router.py lines 178-186: the route of one prefix of the entities
ExactRoute(self, prefix) ==
    IF ~Truthy(TreeOfAddress(self, prefix)) THEN <<>>
    ELSE IF ~Truthy(search_exact(TreeOfAddress(self, prefix), prefix)) THEN <<>>
    ELSE <<[type |-> "exact_match", prefix |-> prefix,
            data |-> search_exact(TreeOfAddress(self, prefix), prefix).data]>>

\* clean_router.py lines 190-199: the route of one address of the entities
BestRoute(self, ip) ==
    IF ~Truthy(TreeOfAddress(self, ip)) THEN <<>>
    ELSE IF ~Truthy(search_best(TreeOfAddress(self, ip), ip)) THEN <<>>
    ELSE <<[type |-> "longest_prefix_match", ip |-> ip,
            matching_prefix |-> search_best(TreeOfAddress(self, ip), ip).prefix,
            data |-> search_best(TreeOfAddress(self, ip), ip).data]>>

\* clean_router.py lines 206-209: the prefixes of one tree whose
\* node.data.get("origin_as") == asn
OriginatedIn(radix, asn) ==
    IF ~Truthy(radix) THEN {}
    ELSE {q \in DOMAIN radix.tree : PyEq(PyInt(radix.tree[q].origin_as), asn)}

\* the limit of prefixes[:10] (clean_router.py line 215)
PrefixLimit == 10

\* prefixes[:10]: the first ten prefixes in the order of the iteration
FirstPrefixes(prefixes) ==
    IF Cardinality(prefixes) <= PrefixLimit THEN prefixes
    ELSE CHOOSE T \in SUBSET prefixes : Cardinality(T) = PrefixLimit

\* clean_router.py lines 202-216: the route of one AS number of the entities
OriginRoute(self, asn) ==
    IF OriginatedIn(self.rtree_v4, asn) \cup OriginatedIn(self.rtree_v6, asn) = {} THEN <<>>
    ELSE <<[type |-> "as_originated", asn |-> asn,
            prefixes |-> FirstPrefixes(OriginatedIn(self.rtree_v4, asn)
                                         \cup OriginatedIn(self.rtree_v6, asn))]>>

RECURSIVE ExactRoutes(_, _)
ExactRoutes(self, prefixes) ==
    IF prefixes = <<>> THEN <<>>
    ELSE ExactRoute(self, Head(prefixes)) \o ExactRoutes(self, Tail(prefixes))

RECURSIVE BestRoutes(_, _)
BestRoutes(self, ip_addresses) ==
    IF ip_addresses = <<>> THEN <<>>
    ELSE BestRoute(self, Head(ip_addresses)) \o BestRoutes(self, Tail(ip_addresses))

RECURSIVE OriginRoutes(_, _)
OriginRoutes(self, asns) ==
    IF asns = <<>> THEN <<>>
    ELSE OriginRoute(self, Head(asns)) \o OriginRoutes(self, Tail(asns))

\* CleanBGPRouter.get_live_bgp_state
get_live_bgp_state(self, entities) ==
    IF ~Truthy(self.rtree_v4) /\ ~Truthy(self.rtree_v6)
      THEN [status |-> "no_data", routes |-> <<>>]
      ELSE [status |-> "success",
            routes |-> ExactRoutes(self, entities.prefixes)
                         \o BestRoutes(self, entities.ip_addresses)
                         \o OriginRoutes(self, entities.asns)]

\* the entities of a question that names one prefix, one address or one AS;
\* the extractors give an AS number as a string of digits
\* (entity_extractor.py line 40), another caller may give an int
NoEntities == [prefixes |-> <<>>, ip_addresses |-> <<>>, asns |-> <<>>]
Entities ==
    {[NoEntities EXCEPT !.prefixes = <<q>>] : q \in QueryPrefixes4 \cup QueryPrefixes6}
    \cup {[NoEntities EXCEPT !.ip_addresses = <<a>>] : a \in Addresses(4) \cup Addresses(6)}
    \cup {[NoEntities EXCEPT !.asns = <<n>>] : n \in {PyStr("1"), PyStr("2"), PyInt(1), PyInt(2)}}

\* the router whose _load_radix_trees has loaded the checkpoint of the tables
LoadedRouter ==
    [rtree_v4 |-> Unpickled(Pickled(rtree_v4)), rtree_v6 |-> Unpickled(Pickled(rtree_v6))]

InitQuery ==
    /\ pc = "query"
    /\ phase = "Backfill"
    /\ intr_pc = ""
    /\ rtree_v4 \in TablesOver(QueryPrefixes4)
    /\ rtree_v6 \in TablesOver(QueryPrefixes6)
    /\ file_v4 = rtree_v4
    /\ file_v6 = rtree_v6
    /\ db = <<>>
    /\ db_open = TRUE
    /\ update_count = 0
    /\ last_save_count = 0
    /\ chunk_start = rib_time
    /\ batch = <<>>
    /\ i = 1
    /\ stored_count = 0
    /\ error_count = 0
    /\ arrived = <<>>
    /\ applied = [q \in {P4, P6} |-> [update |-> NoUpdate, done |-> TRUE]]
    /\ unsaved = 0
    /\ fetched = 0
    /\ fin \in {[kind |-> "entities", entities |-> e] : e \in Entities}
               \cup {[kind |-> "main", test_ip |-> a, test_ip6 |-> b] :
                       a \in Addresses(4), b \in Addresses(6)}
    /\ fout = NoResult

\* the router answers a question about the live state
LiveState ==
    /\ pc = "query"
    /\ fin.kind = "entities"
    /\ fout' = [kind |-> "live", result |-> get_live_bgp_state(LoadedRouter, fin.entities)]
    /\ pc' = "answered"
    /\ UNCHANGED <<lvars, fin>>

\* bgp_radix1.py lines 373-394: the example searches of the script
MainSearches ==
    /\ pc = "query"
    /\ fin.kind = "main"
    /\ fout' = [kind |-> "main",
                best |-> search_best(Unpickled(Pickled(rtree_v4)), fin.test_ip),
                worst |-> search_worst(Unpickled(Pickled(rtree_v4)), fin.test_ip),
                best6 |-> search_best(Unpickled(Pickled(rtree_v6)), fin.test_ip6)]
    /\ pc' = "answered"
    /\ UNCHANGED <<lvars, fin>>

NextQuery == LiveState \/ MainSearches

SpecQuery == InitQuery /\ [][NextQuery]_vars

\* the stored prefixes of both tables, and the entry of one
StoredPrefixes == DOMAIN rtree_v4 \cup DOMAIN rtree_v6
StoredEntry(q) == IF HasColon(q) THEN rtree_v6[q] ELSE rtree_v4[q]

\* the prefix covers the address
Covers(prefix, ip) ==
    /\ prefix.fam = ip.fam
    /\ Len(prefix.bits) <= Len(ip.bits)
    /\ SubSeq(ip.bits, 1, Len(prefix.bits)) = prefix.bits

Covering(ip) == {q \in StoredPrefixes : Covers(q, ip)}

\* the node is the covering entry of greatest (sign = 1) or smallest
\* (sign = -1) prefix length, or nothing when no stored prefix covers ip
IsExtremeMatch(node, ip, sign) ==
    IF Covering(ip) = {} THEN ~Truthy(node)
    ELSE /\ Truthy(node)
         /\ node.prefix \in Covering(ip)
         /\ node.data = StoredEntry(node.prefix)
         /\ \A q \in Covering(ip) : sign * Len(q.bits) <= sign * Len(node.prefix.bits)

\* the route the query layer gives for an address, as a node or None
RouteNode(routes) ==
    IF routes = <<>> THEN PyNone
    ELSE [py |-> "RadixNode", prefix |-> routes[1].matching_prefix, data |-> routes[1].data]

\* C18: for every table and every address the best-match lookup gives the
\* stored entry of greatest prefix length among the stored prefixes that
\* cover the address, and nothing when none covers it; the worst-match
\* lookup gives the covering entry of smallest prefix length.
C18_BestAndWorstMatch ==
    pc = "answered" =>
        /\ (fin.kind = "entities" /\ fin.entities.ip_addresses # <<>>) =>
              /\ Len(fout.result.routes) <= 1
              /\ IsExtremeMatch(RouteNode(fout.result.routes), fin.entities.ip_addresses[1], 1)
        /\ fin.kind = "main" =>
              /\ IsExtremeMatch(fout.best, fin.test_ip, 1)
              /\ IsExtremeMatch(fout.worst, fin.test_ip, -1)
              /\ IsExtremeMatch(fout.best6, fin.test_ip6, 1)

\* an address covered by three nested prefixes has been looked up both ways
C18_Witness ==
    /\ pc = "answered"
    /\ fin.kind = "main"
    /\ Cardinality(Covering(fin.test_ip)) = 3
    /\ Len(fout.best.prefix.bits) = 2
    /\ Len(fout.worst.prefix.bits) = 0

\* the number an AS number of the entities stands for
AsnNumber(asn) == IF asn.py = "int" THEN asn.val ELSE IntOf[asn.val]

\* the prefixes the by-origin query has returned
ReturnedPrefixes(routes) == IF routes = <<>> THEN {} ELSE routes[1].prefixes

\* C20: the by-origin query returns every stored prefix of both tables
\* whose entry has originAS equal to asn, and no other prefix.
C20_ByOriginComplete ==
    (pc = "answered" /\ fin.kind = "entities" /\ fin.entities.asns # <<>>) =>
        ReturnedPrefixes(fout.result.routes)
          = {q \in StoredPrefixes : StoredEntry(q).origin_as = AsnNumber(fin.entities.asns[1])}

----------------------------------------------------------------------------
(* handle_live_updates on a fixed archive: the feed is one list of         *)
(* distinct updates, every fetch reads its own window of it, and one step  *)
(* is one whole iteration of the backfill loop or of the tail loop         *)

MaxFeed == 2
MaxPolls == 3

\* the instants of the archive's updates: inside the first chunk, on the
\* boundary of the first two chunks, and after rib_time + 10 minutes
FeedTimes == {rib_time + 30, rib_time + 60, current_time + 30, current_time + 130}

FeedUpdates ==
    {BGPUpdate(t, P4, Path1, "A") : t \in FeedTimes}
    \cup {BGPUpdate(t, P4, PathEmpty, "W") : t \in FeedTimes}

\* the archive: distinct updates in the order of their timestamps
Feeds ==
    {s \in SeqsUpTo(FeedUpdates, MaxFeed) :
        \A j, k \in 1..Len(s) :
            j < k => (s[j].timestamp <= s[k].timestamp /\ s[j] # s[k])}

\* datetime.utcnow() at the first poll of the tail loop: the wall clock, no
\* earlier than rib_time + 10 minutes
TailStarts == {current_time, current_time + 100}

\* the seconds between the end of one poll's processing and the next poll:
\* time.sleep(30) after an empty poll, the processing time otherwise
PollGaps == {0, 30}

\* _create_stream(from_time, until_time): the elements of the archive in the
\* window, both ends included
Stream(elems, from_time, until_time) ==
    SelectSeq(elems, LAMBDA e : from_time <= e.timestamp /\ e.timestamp <= until_time)

\* get_prefix_updates(minutes=1) called at the instant now: the window is
\* [now - 1 minute, now] and the loop keeps every element of the stream
get_prefix_updates(elems, now) == Stream(elems, now - 60, now)

\* for update in updates: db_loader.store_live_update(update)
RECURSIVE StoreAll(_, _)
StoreAll(updates, rows) ==
    IF updates = <<>> THEN rows
    ELSE StoreAll(Tail(updates), store_live_update(Head(updates), rows).rows)

StoredOk(updates) ==
    Cardinality({k \in 1..Len(updates) : store_live_update(updates[k], <<>>).ok})

\* one iteration of the apply loop on the trees, the counters and the files
ApplyUpdate(st, update) ==
    LET six == HasColon(update.prefix)
        tree == IF six THEN st.v6 ELSE st.v4 IN
    IF IsWithdrawal(update)
      THEN LET t == TreeWithdraw(tree, update.prefix) IN
           [st EXCEPT !.v4 = IF six THEN @ ELSE t, !.v6 = IF six THEN t ELSE @]
    ELSE IF IsUpsert(update)
      THEN LET t == SetAsPath(SetOriginAs(TreeAdd(tree, update.prefix), update.prefix,
                                          OriginOf(update)),
                              update.prefix, AsNumbers(update.as_path))
               v4 == IF six THEN st.v4 ELSE t
               v6 == IF six THEN t ELSE st.v6
               count == st.count + 1 IN
           IF SaveDue(count, st.last)
             THEN [v4 |-> v4, v6 |-> v6, count |-> count, last |-> count,
                   f4 |-> v4, f6 |-> v6]
             ELSE [st EXCEPT !.v4 = v4, !.v6 = v6, !.count = count]
    ELSE st

\* for update in updates: ... of lines 220-259 and 295-334
RECURSIVE ApplyAll(_, _)
ApplyAll(st, updates) ==
    IF updates = <<>> THEN st ELSE ApplyAll(ApplyUpdate(st, Head(updates)), Tail(updates))

\* the list us has been fetched; "if updates:" stores, summarizes and
\* applies it, and an empty list leaves everything as it was
ProcessBatch(us) ==
    LET st == ApplyAll([v4 |-> rtree_v4, v6 |-> rtree_v6, count |-> update_count,
                        last |-> last_save_count, f4 |-> file_v4, f6 |-> file_v6],
                       summarize_updates(us)) IN
    /\ db' = StoreAll(us, db)
    /\ IF us # <<>>
         THEN /\ stored_count' = StoredOk(us)
              /\ error_count' = Len(us) - StoredOk(us)
              /\ i' = Len(us) + 1
         ELSE UNCHANGED <<stored_count, error_count, i>>
    /\ batch' = summarize_updates(us)
    /\ arrived' = us
    /\ fetched' = fetched + Len(us)
    /\ rtree_v4' = st.v4
    /\ rtree_v6' = st.v6
    /\ update_count' = st.count
    /\ last_save_count' = st.last
    /\ file_v4' = st.f4
    /\ file_v6' = st.f6

InitFeed ==
    /\ pc = "bf_loop"
    /\ PipelineStart
    /\ \E elems \in Feeds, t \in TailStarts :
          fin = [kind |-> "feed", elems |-> elems, tail_start |-> t]
    /\ fout = [kind |-> "feed", now |-> rib_time, polls |-> 0, returned |-> <<>>]

\* lines 191-266: one chunk of the backfill
FeedChunk ==
    /\ pc = "bf_loop"
    /\ chunk_start < current_time
    /\ LET chunk_end == Min(chunk_start + 60, current_time)
           us == get_prefix_updates_in_range(
                     Stream(fin.elems, chunk_start, chunk_end), chunk_start, chunk_end) IN
       /\ ProcessBatch(us)
       /\ chunk_start' = chunk_end
       /\ fout' = [fout EXCEPT !.returned = Append(@, [phase |-> "Backfill", updates |-> us,
                                                       at |-> chunk_end])]
    /\ UNCHANGED <<pc, phase, intr_pc, db_open, applied, unsaved, fin>>

\* line 191 is false: the tail loop is entered, at the wall clock's instant
FeedBackfillDone ==
    /\ pc = "bf_loop"
    /\ ~(chunk_start < current_time)
    /\ pc' = "tail_loop"
    /\ phase' = "Tail"
    /\ fout' = [fout EXCEPT !.now = fin.tail_start]
    /\ UNCHANGED <<intr_pc, rtree_v4, rtree_v6, file_v4, file_v6, db, db_open,
                   update_count, last_save_count, chunk_start, batch, i, stored_count,
                   error_count, arrived, applied, unsaved, fetched, fin>>

\* lines 271-341: one poll of the tail loop, and the wait before the next
FeedPoll ==
    /\ pc = "tail_loop"
    /\ fout.polls < MaxPolls
    /\ LET us == get_prefix_updates(fin.elems, fout.now) IN
       /\ ProcessBatch(us)
       /\ \E gap \in (IF us = <<>> THEN {30} ELSE PollGaps) :
             fout' = [fout EXCEPT
                        !.now = @ + gap,
                        !.polls = @ + 1,
                        !.returned = Append(@, [phase |-> "Tail", updates |-> us,
                                                at |-> fout.now])]
    /\ UNCHANGED <<pc, phase, intr_pc, db_open, chunk_start, applied, unsaved, fin>>

NextFeed == FeedChunk \/ FeedBackfillDone \/ FeedPoll

SpecFeed == InitFeed /\ [][NextFeed]_vars

----------------------------------------------------------------------------
(* Claims about the fetches, checked under SpecFeed *)

\* the updates of the archive that the j-th fetch returned
ReturnedBy(j) == {fout.returned[j].updates[k] : k \in 1..Len(fout.returned[j].updates)}

\* two consecutive fetches of the same loop
ConsecutiveIn(ph, j) ==
    /\ j \in 1..(Len(fout.returned) - 1)
    /\ fout.returned[j].phase = ph
    /\ fout.returned[j + 1].phase = ph

ChunksShareNothing ==
    \A j \in 1..Len(fout.returned) :
        ConsecutiveIn("Backfill", j) => ReturnedBy(j) \cap ReturnedBy(j + 1) = {}

PollsShareNothing ==
    \A j \in 1..Len(fout.returned) :
        ConsecutiveIn("Tail", j) => ReturnedBy(j) \cap ReturnedBy(j + 1) = {}

\* C28: no two consecutive backfill chunks return the same update, and no
\* two consecutive polls of the tail loop return the same update, so every
\* update of the feed is appended to the log and applied at most once
C28_NoUpdateFetchedTwice == ChunksShareNothing /\ PollsShareNothing

\* the updates some poll of the tail loop has returned
ReturnedByTail ==
    UNION {ReturnedBy(j) : j \in {k \in 1..Len(fout.returned) :
                                      fout.returned[k].phase = "Tail"}}

\* the instant of the latest poll of the tail loop
LastPollAt == fout.returned[Len(fout.returned)].at

\* C29: the tail loop continues where the backfill ended: once a poll has
\* been made at some instant, every update of the feed stamped after
\* rib_time + 10 minutes and no later than that instant has been returned
\* by a poll of the tail loop
C29_TailContinuesBackfill ==
    (phase = "Tail" /\ fout.polls > 0) =>
        \A k \in 1..Len(fin.elems) :
            (current_time < fin.elems[k].timestamp /\ fin.elems[k].timestamp <= LastPollAt)
                => fin.elems[k] \in ReturnedByTail

----------------------------------------------------------------------------
(* Claims about analyze_route_flaps, checked under SpecFlap *)

\* the history is four updates A, W, A, W in time order, no more than a
\* minute from the first to the last
IsAWAW(h) ==
    /\ Len(h) = 4
    /\ h[1].type = "A" /\ h[2].type = "W" /\ h[3].type = "A" /\ h[4].type = "W"
    /\ \A k \in 1..3 : FromIso(h[k].timestamp) <= FromIso(h[k + 1].timestamp)
    /\ FromIso(h[4].timestamp) - FromIso(h[1].timestamp) <= 60

FlapCallDone == pc = "analyzed" /\ fin.kind = "flaps"

\* C3, as the specification states it: with the default parameters, four
\* updates A, W, A, W within one minute give flap_detected = true and
\* transition_count = 3.
C3_FourUpdatesFlap ==
    (FlapCallDone /\ fin.parameters = DefaultParameters /\ IsAWAW(fin.historical_updates))
        => (fout.flap_detected = TRUE /\ fout.transition_count = 3)

\* C3, as the code has it: with the default parameters, four updates
\* A, W, A, W within one minute give transition_count = 3 and, three being
\* below the default minimum of four transitions, flap_detected = false and
\* severity normal.
C3_FourUpdatesNoFlap ==
    (FlapCallDone /\ fin.parameters = DefaultParameters /\ IsAWAW(fin.historical_updates))
        => /\ fout.transition_count = 3
           /\ fout.flap_detected = FALSE
           /\ fout.severity = "normal"

C3_Witness ==
    /\ FlapCallDone /\ fin.parameters = DefaultParameters
    /\ IsAWAW(fin.historical_updates)
    /\ FromIso(fin.historical_updates[4].timestamp) = 60
    /\ fout.transition_count = 3 /\ fout.rapid_transitions = 2

\* the updates of h no older than the window that ends at the latest of them
InTrailingWindow(h, minutes) ==
    {k \in 1..Len(h) :
        \A j \in 1..Len(h) :
            FromIso(h[j].timestamp) - FromIso(h[k].timestamp) <= minutes * 60}

\* C8: given fewer than three updates, or fewer than three updates in the
\* trailing window that ends at the latest timestamp, analyze_route_flaps
\* reports insufficient data: flap_detected false, transition_count 0,
\* rapid_transitions 0, severity normal.
C8_InsufficientData ==
    (/\ FlapCallDone
     /\ \/ Len(fin.historical_updates) < 3
        \/ Cardinality(InTrailingWindow(fin.historical_updates,
                                        fin.parameters.time_window_minutes)) < 3)
        => /\ fout.flap_detected = FALSE
           /\ fout.transition_count = 0
           /\ fout.rapid_transitions = 0
           /\ fout.severity = "normal"
           /\ fout.details = <<>>

\* a history of four alternating updates, only two of them in the
\* one-minute window, under a minimum of two transitions
C8_Witness ==
    /\ FlapCallDone
    /\ Len(fin.historical_updates) = 4
    /\ fin.parameters.min_transitions_for_flap = 2
    /\ Cardinality(InTrailingWindow(fin.historical_updates,
                                    fin.parameters.time_window_minutes)) = 2
    /\ \A k \in 1..3 : fin.historical_updates[k].type # fin.historical_updates[k + 1].type
    /\ fout.pattern_analysis = "insufficient updates in window"
    /\ fout.transition_count = 0

\* the analysed window: the updates in timestamp order that are no older
\* than the window before the latest one (lines 28-37)
AnalysedWindow(h, minutes) ==
    RelevantUpdates(SortedByIso(h),
                    FromIso(SortedByIso(h)[Len(h)].timestamp) - minutes * 60)

\* the call went past both tests of insufficient data
FlapAnalysed ==
    /\ FlapCallDone
    /\ Len(fin.historical_updates) >= 3
    /\ Len(AnalysedWindow(fin.historical_updates, fin.parameters.time_window_minutes)) >= 3

\* the positions of the window whose update differs in kind from the one
\* just before it
TransitionsOf(w) == {k \in 2..Len(w) : w[k].type # w[k - 1].type}

\* the detail record of the transition at position k of the window
DetailAt(w, k) ==
    [timestamp |-> w[k].timestamp, transition |-> <<w[k - 1].type, w[k].type>>,
     as_path |-> w[k].as_path]

\* details holds one record per transition of the window, in their order
DetailsMatch(details, w) ==
    /\ Len(details) = Cardinality(TransitionsOf(w))
    /\ \A k \in TransitionsOf(w) :
          details[Cardinality({m \in TransitionsOf(w) : m <= k})] = DetailAt(w, k)

\* C23: within the analysed window transition_count is the number of
\* updates whose kind differs from that of the update just before them in
\* timestamp order, details holds exactly one record (timestamp,
\* transition, as_path) per transition in that order, and flap_detected is
\* true exactly when transition_count >= min_transitions_for_flap.
C23_TransitionsCounted ==
    FlapAnalysed =>
        /\ fout.transition_count
              = Cardinality(TransitionsOf(AnalysedWindow(fin.historical_updates,
                                                         fin.parameters.time_window_minutes)))
        /\ DetailsMatch(fout.details, AnalysedWindow(fin.historical_updates,
                                                     fin.parameters.time_window_minutes))
        /\ fout.flap_detected
              <=> (fout.transition_count >= fin.parameters.min_transitions_for_flap)

\* a window of four updates W, A, A, W: two transitions, one of each
\* direction, under a minimum of two
C23_Witness ==
    /\ FlapAnalysed
    /\ fin.parameters.min_transitions_for_flap = 2
    /\ Len(fin.historical_updates) = 4
    /\ fout.transition_count = 2
    /\ fout.details[1].transition = <<"W", "A">>
    /\ fout.details[2].transition = <<"A", "W">>
    /\ fout.flap_detected = TRUE

\* the transition after the one at position k of the window, 0 if none
NextTransition(w, k) ==
    IF {m \in TransitionsOf(w) : m > k} = {} THEN 0
    ELSE CHOOSE m \in TransitionsOf(w) :
             m > k /\ \A j \in TransitionsOf(w) : j > k => m <= j

\* the pairs of consecutive transitions at most `interval` seconds apart
RapidPairs(w, interval) ==
    {k \in TransitionsOf(w) :
        /\ NextTransition(w, k) # 0
        /\ FromIso(w[NextTransition(w, k)].timestamp) - FromIso(w[k].timestamp) <= interval}

\* the severity ladder of C24 for n transitions, r rapid ones, minimum m
LadderSeverity(detected, n, r, m) ==
    CASE ~detected -> "normal"
      [] detected /\ (n > m + 4 \/ r > m \div 2) -> "high"
      [] detected /\ ~(n > m + 4 \/ r > m \div 2) /\ (n > m + 2 \/ r > 0) -> "medium"
      [] OTHER -> "low"

\* C24: rapid_transitions is the number of consecutive transition pairs
\* whose timestamps are at most rapid_flap_interval_seconds apart; when a
\* flap is detected the severity is high if transition_count > min + 4 or
\* rapid_transitions > min / 2 (integer division), else medium if
\* transition_count > min + 2 or rapid_transitions > 0, else low; when no
\* flap is detected it is normal.
C24_RapidCountAndSeverity ==
    /\ FlapAnalysed =>
          fout.rapid_transitions
            = Cardinality(RapidPairs(AnalysedWindow(fin.historical_updates,
                                                    fin.parameters.time_window_minutes),
                                     fin.parameters.rapid_flap_interval_seconds))
    /\ FlapCallDone =>
          fout.severity = LadderSeverity(fout.flap_detected, fout.transition_count,
                                         fout.rapid_transitions,
                                         fin.parameters.min_transitions_for_flap)

\* six slow transitions under a minimum of one: high by the count alone
C24_Witness ==
    /\ FlapAnalysed
    /\ fin.parameters.min_transitions_for_flap = 1
    /\ fout.transition_count = 6
    /\ fout.rapid_transitions = 0
    /\ fout.severity = "high"

\* the lists that hold the updates of h in another order
Reorderings(h) == {[k \in 1..Len(h) |-> h[f[k]]] : f \in Permutations(1..Len(h))}

\* the fields of a result that C27 names
NamedFields(result) ==
    <<result.flap_detected, result.transition_count, result.rapid_transitions,
      result.severity, result.details>>

\* C27: analyze_route_flaps returns the same flap_detected,
\* transition_count, rapid_transitions, severity and details for every
\* reordering of the list it was given, also when updates of different
\* kinds share one timestamp.
C27_OrderOfInputIrrelevant ==
    FlapCallDone =>
        \A g \in Reorderings(fin.historical_updates) :
            NamedFields(analyze_route_flaps(g, fin.parameters.time_window_minutes,
                                            fin.parameters.min_transitions_for_flap,
                                            fin.parameters.rapid_flap_interval_seconds))
              = NamedFields(fout)

----------------------------------------------------------------------------
(* Claims about analyze_bgp_discrepancies, checked under SpecDisc *)

DiscCallDone == pc = "analyzed" /\ fin.kind = "discrepancies"

\* the order normal < low < medium < high < critical
Rank == [normal |-> 0, low |-> 1, medium |-> 2, high |-> 3, critical |-> 4]

Flagged(flag) == \E k \in 1..Len(fout.flags) : fout.flags[k] = flag

\* the severity of the flap analysis that seeded the result: normal when
\* there was no analysis
FlapSeed == IF fout.flap_analysis = PyNone THEN "normal" ELSE fout.flap_analysis.severity

\* C4: in the non-hijack branch, a result flagged RPKI_INVALID has severity
\* at least high, one flagged IRR_MISMATCH at least medium, and one flagged
\* RPKI_IRR_CONFLICT at least medium, with or without history.
C4_FlagSeverityFloors ==
    (DiscCallDone /\ ~Flagged("POTENTIAL_HIJACK")) =>
        /\ Flagged("RPKI_INVALID") => Rank[fout.severity] >= Rank["high"]
        /\ Flagged("IRR_MISMATCH") => Rank[fout.severity] >= Rank["medium"]
        /\ Flagged("RPKI_IRR_CONFLICT") => Rank[fout.severity] >= Rank["medium"]

\* C5: the severity is only raised across the checks, so the returned
\* severity is never below the severity of the flap analysis that seeded it.
C5_NeverBelowFlapSeverity ==
    DiscCallDone => Rank[fout.severity] >= Rank[FlapSeed]

\* the number of times the flag is in the result
FlagCount(flag) == Cardinality({k \in 1..Len(fout.flags) : fout.flags[k] = flag})

\* a history was supplied and the flap analysis ran
FlapAnalysisRan == DiscCallDone /\ fin.historical_updates # <<>>

\* the flap flag that goes with a flap severity
FlapFlagOf(severity) ==
    IF severity = "critical" THEN "SEVERE_ROUTE_FLAPPING"
    ELSE IF severity = "high" THEN "FREQUENT_ROUTE_FLAPPING"
    ELSE "ROUTE_FLAPPING"

\* exactly one of the three flap flags, the one of the flap severity, when
\* a flap is detected, and none of them when none is
OneFlapFlag ==
    \A f \in {"ROUTE_FLAPPING", "FREQUENT_ROUTE_FLAPPING", "SEVERE_ROUTE_FLAPPING"} :
        FlagCount(f) = IF /\ fout.flap_analysis.flap_detected
                          /\ f = FlapFlagOf(fout.flap_analysis.severity)
                         THEN 1 ELSE 0

\* the flap severity is the overall severity when no later check has
\* added a flag
SeverityIsSeeded ==
    (\A k \in 1..Len(fout.flags) :
        fout.flags[k] \in {"ROUTE_FLAPPING", "FREQUENT_ROUTE_FLAPPING",
                           "SEVERE_ROUTE_FLAPPING", "RAPID_STATE_CHANGES"})
      => fout.severity = fout.flap_analysis.severity

\* C25, as the specification states it: with a history, the flap severity
\* seeds the overall severity, the flags hold exactly one of the three flap
\* flags when a flap is detected, and RAPID_STATE_CHANGES is there whenever
\* the flap analysis counts at least one rapid transition.
C25_RapidFlagWheneverRapid ==
    FlapAnalysisRan =>
        /\ SeverityIsSeeded
        /\ OneFlapFlag
        /\ Flagged("RAPID_STATE_CHANGES") <=> (fout.flap_analysis.rapid_transitions > 0)

\* C25, as the code has it: with a history, the flap severity seeds the
\* overall severity, the flags hold exactly one of the three flap flags
\* when a flap is detected, and RAPID_STATE_CHANGES is there exactly when a
\* flap is detected and the flap analysis counts at least one rapid
\* transition.
C25_RapidFlagOnlyWithFlap ==
    FlapAnalysisRan =>
        /\ SeverityIsSeeded
        /\ OneFlapFlag
        /\ Flagged("RAPID_STATE_CHANGES")
              <=> (fout.flap_analysis.flap_detected /\ fout.flap_analysis.rapid_transitions > 0)

\* a history with rapid transitions but fewer than four of them: no flap,
\* no flag
C25_Witness ==
    /\ FlapAnalysisRan
    /\ fout.flap_analysis.rapid_transitions > 0
    /\ ~fout.flap_analysis.flap_detected
    /\ fout.flags = <<>>
    /\ fout.severity = "normal"

\* C30: the flap analysis never has severity critical, so the result is
\* never flagged SEVERE_ROUTE_FLAPPING, and the result has severity critical
\* only when it is flagged POTENTIAL_HIJACK.
C30_CriticalOnlyForHijack ==
    DiscCallDone =>
        /\ fout.flap_analysis # PyNone => fout.flap_analysis.severity # "critical"
        /\ ~Flagged("SEVERE_ROUTE_FLAPPING")
        /\ fout.severity = "critical" => Flagged("POTENTIAL_HIJACK")

\* a hijack found on a history whose flap analysis reached its top severity
C30_Witness ==
    /\ FlapAnalysisRan
    /\ fout.flap_analysis.flap_detected
    /\ fout.flap_analysis.severity = "high"
    /\ Flagged("FREQUENT_ROUTE_FLAPPING")
    /\ Flagged("POTENTIAL_HIJACK")
    /\ fout.severity = "critical"

\* the RPKI status of the input starts with "invalid"
RpkiSaysInvalid ==
    /\ fin.rpki_data # PyNone
    /\ fin.rpki_data.rpki_status \in {"invalid", "invalid_asn"}

\* the IRR result has at least one origin and the normalized live origin is
\* not among them
IrrExcludesLiveOrigin ==
    /\ fin.irr_data # PyNone
    /\ fin.irr_data.irr_origins # <<>>
    /\ CurrentOrigin(fin.live_bgp_data) # NoCurrentOrigin
    /\ \A k \in 1..Len(fin.irr_data.irr_origins) :
          fin.irr_data.irr_origins[k] # CurrentOrigin(fin.live_bgp_data)

\* C6: an RPKI status that starts with "invalid" together with IRR origins
\* that do not include the normalized live origin gives severity critical
\* and POTENTIAL_HIJACK, and none of RPKI_INVALID, IRR_MISMATCH,
\* MULTIPLE_IRR_ORIGINS, RPKI_IRR_CONFLICT, whatever the history; with no
\* history the flags are exactly POTENTIAL_HIJACK.
C6_HijackOverrides ==
    (DiscCallDone /\ RpkiSaysInvalid /\ IrrExcludesLiveOrigin) =>
        /\ fout.severity = "critical"
        /\ Flagged("POTENTIAL_HIJACK")
        /\ ~Flagged("RPKI_INVALID") /\ ~Flagged("IRR_MISMATCH")
        /\ ~Flagged("MULTIPLE_IRR_ORIGINS") /\ ~Flagged("RPKI_IRR_CONFLICT")
        /\ fin.historical_updates = <<>> => fout.flags = <<"POTENTIAL_HIJACK">>

\* a hijack of a prefix with two IRR origins, live origin "3", status
\* invalid_asn, during a flap
C6_Witness ==
    /\ DiscCallDone /\ RpkiSaysInvalid /\ IrrExcludesLiveOrigin
    /\ fin.rpki_data.rpki_status = "invalid_asn"
    /\ Len(fin.irr_data.irr_origins) = 2
    /\ fout.flap_analysis # PyNone /\ fout.flap_analysis.flap_detected
    /\ fout.severity = "critical"
    /\ Len(fout.flags) > 1

\* C7: more than one IRR origin and no RPKI data give MULTIPLE_IRR_ORIGINS
\* and no POTENTIAL_HIJACK, with severity at least low, for every live
\* origin and every history.
C7_MultipleOrigins ==
    (/\ DiscCallDone
     /\ fin.rpki_data = PyNone
     /\ fin.irr_data # PyNone /\ Len(fin.irr_data.irr_origins) > 1) =>
        /\ Flagged("MULTIPLE_IRR_ORIGINS")
        /\ ~Flagged("POTENTIAL_HIJACK")
        /\ Rank[fout.severity] >= Rank["low"]

\* two IRR origins, no RPKI data, a live origin outside them and no flap:
\* the severity is low
C7_Witness ==
    /\ DiscCallDone
    /\ fin.rpki_data = PyNone
    /\ fin.irr_data # PyNone /\ Len(fin.irr_data.irr_origins) = 2
    /\ IrrExcludesLiveOrigin
    /\ FlapSeed = "normal"
    /\ Flagged("MULTIPLE_IRR_ORIGINS") /\ Flagged("IRR_MISMATCH")
    /\ fout.severity = "low"

====
